---------------------------- MODULE Spec2Model ----------------------------
(***************************************************************************)
(* A model of gulp-bundle-html: the tag scanner and attribute tokenizer   *)
(* (src/src/regex.ts), the inliner and combiner for scripts               *)
(* (src/src/bundle-js.ts) and stylesheets (src/unnamed/part_002), the     *)
(* class renamer (src/unnamed/part_001), the identifier generator         *)
(* (src/src/string-util.ts) and the per-document pipeline                 *)
(* bundleOutputFile (src/src/index.ts).                                   *)
(*                                                                         *)
(* Text is modelled as TLA+ strings, read character by character with     *)
(* SubSeq.  Every regular expression of regex.ts is an operator that      *)
(* returns the leftmost match at or after a position, computed the way a  *)
(* backtracking matcher resolves that expression.  Documents hold no line *)
(* terminators, so "." matches every character of the alphabet.           *)
(***************************************************************************)
EXTENDS Integers, Sequences, FiniteSets, TLC

VARIABLES
    accum,      \* createStringGenerator: the digit array, joined
    started,    \* createStringGenerator: whether the first yield happened
    count,      \* number of values the generator has yielded
    value,      \* the value of the last next()
    frags,      \* the input document as the fragments it was built from
    html,       \* the document text, rewritten by each step
    cssFiles,   \* Asset Map of stylesheets: sequence of [path, content]
    jsFiles,    \* Asset Map of scripts: sequence of [path, content]
    whitelist,  \* options.classesWhitelist
    fs,         \* the files on disk: path -> content
    pc,         \* position of the harness or of bundleOutputFile
    log,        \* what the harness recorded of earlier steps
    usageCounts,        \* minifyCssClasses: the Usage Count Table
    orderedUsageCount,  \* minifyCssClasses: its entries, ranked
    replacementNames,   \* minifyCssClasses: the Rename Table
    options,    \* bundleOutputFile: the plugin options
    issued,     \* bundleOutputFile: the fs.readFile calls made, [map, path]
    pending,    \* indexes of the reads that have not settled
    writing,    \* the fs.writeFile calls that have not settled, [key, val]
    partials,   \* stringReplaceAsync: the segments and the replacer results
    prevIndex,  \* stringReplaceAsync: index after the last match
    lastIndex,  \* the lastIndex of the global regex given to it
    callback,   \* stringReplaceAsync: whether a callback was given
    called,     \* how often the callback was invoked
    result,     \* what stringReplaceAsync returned
    templates,  \* gulpBundleHtml: the stored templates, as fragments
    calls,      \* the bundleOutputFile calls started, one record each
    renders,    \* options.renderTemplate: its state for each template
    ended,      \* onEndStream: how far the end of the stream has got
    settled     \* how many reads and writes of the calls have completed

genVars == <<accum, started, count, value>>
minVars == <<usageCounts, orderedUsageCount, replacementNames>>
pipeVars == <<options, issued, pending, writing>>
docVars == <<frags, html, cssFiles, jsFiles, whitelist, fs, pc, log, minVars, pipeVars>>
replaceVars == <<partials, prevIndex, lastIndex, callback, called, result>>
streamVars == <<templates, calls, renders, ended, settled>>
vars == <<genVars, docVars, replaceVars, streamVars>>

---------------------------------------------------------------------------
(* Bounds of the model.                                                    *)

\* number of values drawn from one identifier generator
MaxNames == 710

\* number of fragments a document of tags is built from
MaxFrags == 3

\* number of fragments a document with class names is built from
MaxMinFrags == 2

\* the same for the documents with a class named as an inherited member
MaxProtoFrags == 3
\* longest document over the edge-case fragments
MaxEdgeFrags == 2

\* the same for the edge cases of the class renamer
MaxMinEdgeFrags == 2

\* longest document with tags whose asset is not in the Asset Map
MaxMissFrags == 3

---------------------------------------------------------------------------
(* Characters and strings.                                                 *)

Char(s, i) == SubSeq(s, i, i)

CharsOf(s) == {Char(s, i) : i \in 1..Len(s)}

LowerLetters == "abcdefghijklmnopqrstuvwxyz"

UpperLetters == "ABCDEFGHIJKLMNOPQRSTUVWXYZ"

Digits == "0123456789"

\* index of the first occurrence of character c in s, 0 when absent
RECURSIVE IndexFrom(_, _, _)
IndexFrom(s, c, i) ==
    IF i > Len(s) THEN 0
    ELSE IF Char(s, i) = c THEN i
    ELSE IndexFrom(s, c, i + 1)

IndexOf(s, c) == IndexFrom(s, c, 1)

\* String.prototype.toLowerCase on one character (the "i" flag of a regex)
LowerChar(c) ==
    LET i == IndexOf(UpperLetters, c)
    IN  IF i = 0 THEN c ELSE Char(LowerLetters, i)

\* \w of a JavaScript regular expression: [A-Za-z0-9_]
WordChars == CharsOf(LowerLetters) \cup CharsOf(UpperLetters) \cup CharsOf(Digits) \cup {"_"}

\* [a-z] under the "i" flag
LetterChars == CharsOf(LowerLetters) \cup CharsOf(UpperLetters)

\* \s, and what String.prototype.trim removes
WsChars == {" ", "\t"}

IsWord(s, i) == i >= 1 /\ i <= Len(s) /\ Char(s, i) \in WordChars

\* the text lit (lower case) stands at position i of s, letter case ignored
RECURSIVE EqCIFrom(_, _, _, _)
EqCIFrom(s, i, lit, k) ==
    IF k > Len(lit) THEN TRUE
    ELSE IF i + k - 1 > Len(s) THEN FALSE
    ELSE IF LowerChar(Char(s, i + k - 1)) # Char(lit, k) THEN FALSE
    ELSE EqCIFrom(s, i, lit, k + 1)

EqCI(s, i, lit) == EqCIFrom(s, i, lit, 1)

\* first index >= i whose character is in set (Len(s) + 1 when there is none)
RECURSIVE FirstIn(_, _, _)
FirstIn(s, i, set) ==
    IF i > Len(s) THEN Len(s) + 1
    ELSE IF Char(s, i) \in set THEN i
    ELSE FirstIn(s, i + 1, set)

\* first index >= i whose character is not in set (Len(s) + 1 when none)
RECURSIVE FirstNotIn(_, _, _)
FirstNotIn(s, i, set) ==
    IF i > Len(s) THEN Len(s) + 1
    ELSE IF Char(s, i) \notin set THEN i
    ELSE FirstNotIn(s, i + 1, set)

\* last index <= i whose character is not in set (0 when there is none)
RECURSIVE LastNotIn(_, _, _)
LastNotIn(s, i, set) ==
    IF i < 1 THEN 0
    ELSE IF Char(s, i) \notin set THEN i
    ELSE LastNotIn(s, i - 1, set)

\* first index >= i at which lit stands, letter case ignored (0 when none)
RECURSIVE FindCI(_, _, _)
FindCI(s, i, lit) ==
    IF i + Len(lit) - 1 > Len(s) THEN 0
    ELSE IF EqCI(s, i, lit) THEN i
    ELSE FindCI(s, i + 1, lit)

\* first index >= i at which lit stands exactly (0 when none)
RECURSIVE FindStr(_, _, _)
FindStr(s, i, lit) ==
    IF i + Len(lit) - 1 > Len(s) THEN 0
    ELSE IF SubSeq(s, i, i + Len(lit) - 1) = lit THEN i
    ELSE FindStr(s, i + 1, lit)

StartsWith(s, lit) == Len(s) >= Len(lit) /\ SubSeq(s, 1, Len(lit)) = lit

\* String.prototype.trim
Trim(s) ==
    LET a == FirstNotIn(s, 1, WsChars)
        b == LastNotIn(s, Len(s), WsChars)
    IN  IF a > b THEN "" ELSE SubSeq(s, a, b)

\* String.prototype.split(WS_REGEX): the pieces between runs of white space
RECURSIVE SplitWs(_)
SplitWs(s) ==
    LET w == FirstIn(s, 1, WsChars)
    IN  IF w > Len(s) THEN <<s>>
        ELSE <<SubSeq(s, 1, w - 1)>> \o SplitWs(SubSeq(s, FirstNotIn(s, w, WsChars), Len(s)))

\* Array.prototype.join
RECURSIVE Join(_, _)
Join(seq, sep) ==
    IF Len(seq) = 0 THEN ""
    ELSE IF Len(seq) = 1 THEN seq[1]
    ELSE seq[1] \o sep \o Join(Tail(seq), sep)

---------------------------------------------------------------------------
(* JavaScript values that may be undefined: a capture group that did not  *)
(* take part in the match, a missing property.                             *)

Undefined == [has |-> FALSE, s |-> ""]

Str(x) == [has |-> TRUE, s |-> x]

\* ToBoolean of a string or undefined
Truthy(v) == v.has /\ v.s # ""

\* a || b
OrElse(a, b) == IF Truthy(a) THEN a ELSE b

\* (a || b || "") as a string
OrEmpty(a, b) == OrElse(OrElse(a, b), Str("")).s

---------------------------------------------------------------------------
(* The regular expressions of regex.ts.  ExecAt(rx, s, p) is the match of *)
(* rx that starts exactly at index p of s (ok = FALSE when there is       *)
(* none): start and end are the first and last index of the match, g1..g3 *)
(* the capture groups.                                                     *)

NoMatch == [ok |-> FALSE, start |-> 0, end |-> 0, g1 |-> Undefined, g2 |-> Undefined, g3 |-> Undefined]

Match(a, b, x1, x2, x3) == [ok |-> TRUE, start |-> a, end |-> b, g1 |-> x1, g2 |-> x2, g3 |-> x3]

\* /<link([^\/>]*)\/?>/ig : the attribute run stops at the first "/" or ">",
\* and only ">" or "/>" may follow it
LinkExecAt(s, p) ==
    IF ~EqCI(s, p, "<link") THEN NoMatch
    ELSE LET q == FirstIn(s, p + 5, {"/", ">"})
             g == Str(SubSeq(s, p + 5, q - 1))
         IN  IF q <= Len(s) /\ Char(s, q) = ">" THEN Match(p, q, g, Undefined, Undefined)
             ELSE IF q < Len(s) /\ Char(s, q) = "/" /\ Char(s, q + 1) = ">"
                  THEN Match(p, q + 1, g, Undefined, Undefined)
             ELSE NoMatch

\* /<script([^>]*)\/>|<script([^>]*)>.*?<\/script[^>]*>/ig : the first
\* alternative needs "/" right before the first ">"; the second runs to the
\* first ">" after the first "</script"
ScriptExecAt(s, p) ==
    IF ~EqCI(s, p, "<script") THEN NoMatch
    ELSE LET q == FirstIn(s, p + 7, {">"})
         IN  IF q > Len(s) THEN NoMatch
             ELSE IF q - 1 >= p + 7 /\ Char(s, q - 1) = "/"
                  THEN Match(p, q, Str(SubSeq(s, p + 7, q - 2)), Undefined, Undefined)
             ELSE LET k == FindCI(s, q + 1, "</script")
                      e == IF k = 0 THEN Len(s) + 1 ELSE FirstIn(s, k + 8, {">"})
                  IN  IF k = 0 \/ e > Len(s) THEN NoMatch
                      ELSE Match(p, e, Undefined, Str(SubSeq(s, p + 7, q - 1)), Undefined)

\* \s*(?:=\s*(?:'([^']*)'|"([^"]*)"))? from index q on, for a match that
\* started at p: the tail shared by XML_ATTRIB_REGEX and HTML_CLASS_REGEX
ValueTail(s, p, q, name) ==
    LET w == FirstNotIn(s, q, WsChars)
        v == FirstNotIn(s, w + 1, WsChars)
        quote == IF w <= Len(s) /\ Char(s, w) = "=" /\ v <= Len(s) THEN Char(s, v) ELSE ""
        c == IF quote \in {"'", "\""} THEN FirstIn(s, v + 1, {quote}) ELSE Len(s) + 1
    IN  IF c > Len(s) THEN Match(p, w - 1, name, Undefined, Undefined)
        ELSE IF quote = "'" THEN Match(p, c, name, Str(SubSeq(s, v + 1, c - 1)), Undefined)
        ELSE Match(p, c, name, Undefined, Str(SubSeq(s, v + 1, c - 1)))

\* /(?<!<)\b([a-z0-9_]+)\s*(?:=\s*(?:'([^']*)'|"([^"]*)"))?/ig
XmlAttribExecAt(s, p) ==
    IF ~IsWord(s, p) \/ IsWord(s, p - 1) \/ (p > 1 /\ Char(s, p - 1) = "<") THEN NoMatch
    ELSE LET q == FirstNotIn(s, p, WordChars)
         IN  ValueTail(s, p, q, Str(SubSeq(s, p, q - 1)))

\* /\b(class)\s*(?:=\s*(?:'([^']*)'|"([^"]*)"))?/ig
HtmlClassExecAt(s, p) ==
    IF ~EqCI(s, p, "class") \/ IsWord(s, p - 1) THEN NoMatch
    ELSE ValueTail(s, p, p + 5, Str(SubSeq(s, p, p + 4)))

\* /\.(-?[_a-z][_a-z0-9-]*)\b/ig : the name is the longest run that ends at
\* a word boundary, that is the run without its trailing "-"
CssClassExecAt(s, p) ==
    IF p > Len(s) \/ Char(s, p) # "." THEN NoMatch
    ELSE LET n == IF p + 1 <= Len(s) /\ Char(s, p + 1) = "-" THEN p + 2 ELSE p + 1
         IN  IF n > Len(s) \/ Char(s, n) \notin (LetterChars \cup {"_"}) THEN NoMatch
             ELSE LET r == FirstNotIn(s, n + 1, WordChars \cup {"-"})
                      e == LastNotIn(s, r - 1, {"-"})
                  IN  Match(p, e, Str(SubSeq(s, p + 1, e)), Undefined, Undefined)

\* /cssClassName\(([^\)]+)\)/ig
JsClassExecAt(s, p) ==
    IF ~EqCI(s, p, "cssclassname(") THEN NoMatch
    ELSE LET c == FirstIn(s, p + 13, {")"})
         IN  IF c > Len(s) \/ c = p + 13 THEN NoMatch
             ELSE Match(p, c, Str(SubSeq(s, p + 13, c - 1)), Undefined, Undefined)

ExecAt(rx, s, p) ==
    CASE rx = "LINK_TAG_REGEX" -> LinkExecAt(s, p)
      [] rx = "SCRIPT_TAG_REGEX" -> ScriptExecAt(s, p)
      [] rx = "XML_ATTRIB_REGEX" -> XmlAttribExecAt(s, p)
      [] rx = "HTML_CLASS_REGEX" -> HtmlClassExecAt(s, p)
      [] rx = "CSS_CLASS_REGEX" -> CssClassExecAt(s, p)
      [] rx = "JS_CLASS_REGEX" -> JsClassExecAt(s, p)

\* the least of a non-empty set of indexes
MinOf(ps) == CHOOSE q \in ps : \A r \in ps : q <= r

\* the match at the least of the start indexes ps, or no match
ExecFirst(rx, s, ps) == IF ps = {} THEN NoMatch ELSE ExecAt(rx, s, MinOf(ps))

\* regex.exec(value) with lastIndex = p - 1: the leftmost match at or after p
Exec(rx, s, p) == ExecFirst(rx, s, {q \in p..Len(s) : ExecAt(rx, s, q).ok})

\* the matches a global regex yields over s, in order: what the exec loop of
\* stringSearch visits and what String.prototype.replace replaces.
\* MatchesOn is the loop body for the match m just found.
RECURSIVE MatchesFrom(_, _, _)
RECURSIVE MatchesOn(_, _, _)
MatchesOn(rx, s, m) == IF ~m.ok THEN <<>> ELSE <<m>> \o MatchesFrom(rx, s, m.end + 1)

MatchesFrom(rx, s, p) == MatchesOn(rx, s, Exec(rx, s, p))

Matches(rx, s) == MatchesFrom(rx, s, 1)

\* /^(?:[a-z]+:)?\/\//i .test(v)
ABSOLUTE_URL_REGEX(v) ==
    LET l == FirstNotIn(v, 1, LetterChars)
    IN  \/ StartsWith(v, "//")
        \/ l > 1 /\ l + 2 <= Len(v) /\ SubSeq(v, l, l + 2) = "://"

\* String.prototype.replace(regex, replacer) once the replacer's results are
\* known: the text between the matches with reps[i] in place of match i
RECURSIVE Splice(_, _, _, _, _)
Splice(s, ms, reps, i, from) ==
    IF i > Len(ms) THEN SubSeq(s, from, Len(s))
    ELSE SubSeq(s, from, ms[i].start - 1) \o reps[i] \o Splice(s, ms, reps, i + 1, ms[i].end + 1)

---------------------------------------------------------------------------
(* JavaScript objects used as maps (MapLike<T>, {}): a sequence of        *)
(* [key, val] in the order Object.entries and for..in visit the own       *)
(* properties: the keys that are array indices first, in ascending        *)
(* numeric order, then the other keys in insertion order.  The "in"       *)
(* operator also finds the properties inherited from Object.prototype.    *)

\* a canonical numeric string: "0", or digits that do not start with "0"
IsArrayIndex(k) ==
    /\ Len(k) >= 1
    /\ Len(k) <= 9
    /\ \A i \in 1..Len(k) : Char(k, i) \in CharsOf(Digits)
    /\ (Len(k) > 1 => Char(k, 1) # "0")

RECURSIVE NumOf(_)
NumOf(k) ==
    IF Len(k) = 0 THEN 0
    ELSE 10 * NumOf(SubSeq(k, 1, Len(k) - 1)) + (IndexOf(Digits, Char(k, Len(k))) - 1)

ObjHasOwn(obj, k) == \E i \in 1..Len(obj) : obj[i].key = k

ObjIndex(obj, k) == CHOOSE i \in 1..Len(obj) : obj[i].key = k

\* the number of own keys that the new key k comes after
ObjSlot(obj, k) ==
    IF IsArrayIndex(k)
    THEN Cardinality({i \in 1..Len(obj) : IsArrayIndex(obj[i].key) /\ NumOf(obj[i].key) < NumOf(k)})
    ELSE Len(obj)

\* obj[k] = v
ObjSet(obj, k, v) ==
    IF ObjHasOwn(obj, k) THEN [obj EXCEPT ![ObjIndex(obj, k)].val = v]
    ELSE LET n == ObjSlot(obj, k)
         IN  SubSeq(obj, 1, n) \o <<[key |-> k, val |-> v]>> \o SubSeq(obj, n + 1, Len(obj))

\* the properties every object literal inherits (the ones whose names class
\* names and attribute names of the model can spell)
ObjectPrototypeNames == {"constructor", "toString"}

\* String(Object.prototype[k]): what an inherited member becomes in a
\* template string or a join
PrototypeText(k) ==
    IF k = "constructor" THEN "function Object() { [native code] }"
    ELSE "function " \o k \o "() { [native code] }"

\* k in obj
ObjIn(obj, k) == ObjHasOwn(obj, k) \/ k \in ObjectPrototypeNames

\* obj[k] of a MapLike<string>, for a key that is no inherited name
ObjGet(obj, k) == IF ObjHasOwn(obj, k) THEN Str(obj[ObjIndex(obj, k)].val) ELSE Undefined

---------------------------------------------------------------------------
(* path.resolve(baseUrl, value) on POSIX paths; baseUrl is absolute.      *)

RECURSIVE SplitOn(_, _)
SplitOn(s, c) ==
    LET w == FirstIn(s, 1, {c})
    IN  IF w > Len(s) THEN <<s>>
        ELSE <<SubSeq(s, 1, w - 1)>> \o SplitOn(SubSeq(s, w + 1, Len(s)), c)

\* drop "" and ".", let ".." remove the segment before it
RECURSIVE NormalizeSegments(_, _)
NormalizeSegments(segs, acc) ==
    IF Len(segs) = 0 THEN acc
    ELSE LET h == Head(segs)
         IN  IF h = "" \/ h = "." THEN NormalizeSegments(Tail(segs), acc)
             ELSE IF h = ".."
                  THEN NormalizeSegments(Tail(segs), SubSeq(acc, 1, Len(acc) - 1))
             ELSE NormalizeSegments(Tail(segs), Append(acc, h))

PathResolve(base, rel) ==
    LET full == IF StartsWith(rel, "/") THEN rel ELSE base \o "/" \o rel
    IN  "/" \o Join(NormalizeSegments(SplitOn(full, "/"), <<>>), "/")

\* path.resolve(baseUrl, value.startsWith("/") ? value.slice(1) : value)
FilePath(base, v) ==
    PathResolve(base, IF StartsWith(v, "/") THEN SubSeq(v, 2, Len(v)) ELSE v)

---------------------------------------------------------------------------
(* Pieces shared by the inliners and combiners.                            *)

\* createXmlAttrib([key, value]) of string-util: the source of this helper
\* is not among the files; it is the serialisation section 4.4 states, with
\* the leading blank that `<style${...join("")}>` needs
createXmlAttrib(e) ==
    IF e.val.has THEN " " \o e.key \o "=\"" \o e.val.s \o "\"" ELSE " " \o e.key

\* Object.entries(outputAttributes).map(createXmlAttrib).join("")
RECURSIVE AttribText(_)
AttribText(obj) ==
    IF Len(obj) = 0 THEN "" ELSE createXmlAttrib(Head(obj)) \o AttribText(Tail(obj))

\* GetSubstitution of String.prototype.replace(string, string): "$$" is "$",
\* "$&" the matched text and "$'" the text after the match (the pattern with
\* a grave accent, the text before the match, is left out: no text of the
\* model holds that character; "$1".."$99" stay as they are, a string
\* pattern having no capture group)
RECURSIVE GetSubstitution(_, _, _)
GetSubstitution(rep, matched, after) ==
    IF Len(rep) = 0 THEN ""
    ELSE IF Len(rep) >= 2 /\ Char(rep, 1) = "$" /\ Char(rep, 2) \in {"$", "&", "'"}
         THEN (CASE Char(rep, 2) = "$" -> "$"
                 [] Char(rep, 2) = "&" -> matched
                 [] Char(rep, 2) = "'" -> after)
              \o GetSubstitution(SubSeq(rep, 3, Len(rep)), matched, after)
    ELSE Char(rep, 1) \o GetSubstitution(Tail(rep), matched, after)

\* html.replace(PLACEHOLDER, output): a string pattern replaces its first
\* occurrence only, and the replacement text goes through GetSubstitution
ReplaceString(s, pat, rep) ==
    LET k == FindStr(s, 1, pat)
        before == SubSeq(s, 1, k - 1)
        after == SubSeq(s, k + Len(pat), Len(s))
    IN  IF k = 0 THEN s
        ELSE before \o GetSubstitution(rep, pat, after) \o after

\* a replacer that writes the inline tag whether or not there is content
InlineTagAlways(tag, tagMatch, st) ==
    "<" \o tag \o AttribText(st.out) \o ">" \o st.contents.s \o "</" \o tag \o ">"

\* the end of the replacer of bundleJs and bundleCss, st being the state the
\* attribute loop left: `<tag${attribs}>${contents}</tag>` if (contents),
\* else tagMatch
InlineTag(tag, tagMatch, st) ==
    IF Truthy(st.contents)
    THEN "<" \o tag \o AttribText(st.out) \o ">" \o st.contents.s \o "</" \o tag \o ">"
    ELSE tagMatch

\* combineJs and combineCss before their replace pass
CombineStart == [out |-> <<>>, contents |-> <<>>, first |-> TRUE, reps |-> <<>>]

\* the end of the replacer of combineJs and combineCss, st being the state
\* the attribute loop left (it wrote the shared outputAttributes): push the
\* contents and return the placeholder or "" if (contents), else tagMatch
CombineTag(c, tagMatch, placeholder, st) ==
    IF Truthy(st.contents)
    THEN [out |-> st.out,
          contents |-> Append(c.contents, st.contents.s),
          first |-> FALSE,
          reps |-> Append(c.reps, IF c.first THEN placeholder ELSE "")]
    ELSE [c EXCEPT !.out = st.out, !.reps = Append(@, tagMatch)]

\* the last two statements of combineJs and combineCss, c being the state
\* after the replace pass over the matches ms of s
CombineOutput(tag, placeholder, s, ms, c) ==
    ReplaceString(Splice(s, ms, c.reps, 1, 1), placeholder,
                  "<" \o tag \o AttribText(c.out) \o ">" \o Join(c.contents, "") \o "</" \o tag \o ">")

\* what a callback parameter that is undefined becomes when it is used as
\* the text to search: regex.exec(undefined) searches "undefined"
ToText(v) == IF v.has THEN v.s ELSE "undefined"

\* the text of match m
TagMatch(s, m) == SubSeq(s, m.start, m.end)

---------------------------------------------------------------------------
(* Stylesheets: bundleCssPrep, bundleCss, combineCss, isCss (bundle-css). *)

\* isCss(attributes): the last rel attribute decides
RECURSIVE IsCssFrom(_, _, _)
IsCssFrom(as, i, acc) ==
    IF i > Len(as) THEN acc
    ELSE IF as[i].g1.s = "rel"
         THEN IsCssFrom(as, i + 1, Trim(OrEmpty(as[i].g2, as[i].g3)) = "stylesheet")
    ELSE IsCssFrom(as, i + 1, acc)

isCss(attributes) == IsCssFrom(Matches("XML_ATTRIB_REGEX", attributes), 1, FALSE)

\* the file reads one tag's attributes trigger, in order: an attribute named
\* locator with a value that is not empty and not an absolute URL
RECURSIVE TagReads(_, _, _, _)
TagReads(as, i, locator, base) ==
    IF i > Len(as) THEN <<>>
    ELSE LET v == Trim(OrEmpty(as[i].g2, as[i].g3))
         IN  (IF as[i].g1.s = locator /\ v # "" /\ ~ABSOLUTE_URL_REGEX(v)
              THEN <<FilePath(base, v)>> ELSE <<>>)
             \o TagReads(as, i + 1, locator, base)

\* bundleCssPrep: the paths of the fs.readFile calls pushed to promises
RECURSIVE CssPrepFrom(_, _, _, _)
CssPrepFrom(s, ms, i, base) ==
    IF i > Len(ms) THEN <<>>
    ELSE LET attributes == ToText(OrElse(ms[i].g1, ms[i].g2))
         IN  (IF isCss(attributes)
              THEN TagReads(Matches("XML_ATTRIB_REGEX", attributes), 1, "href", base)
              ELSE <<>>)
             \o CssPrepFrom(s, ms, i + 1, base)

bundleCssPrep(s, base) == CssPrepFrom(s, Matches("LINK_TAG_REGEX", s), 1, base)

\* the attribute loop of bundleCss and combineCss over one tag: st.contents
\* is the local contents, st.out the outputAttributes object
RECURSIVE CssAttribScan(_, _, _, _, _)
CssAttribScan(as, i, st, files, base) ==
    IF i > Len(as) THEN st
    ELSE LET a == as[i]
             v == Trim(OrEmpty(a.g2, a.g3))
         IN  IF a.g1.s = "href"
             THEN CssAttribScan(as, i + 1, [st EXCEPT !.contents = ObjGet(files, FilePath(base, v))], files, base)
             ELSE IF a.g1.s # "rel" /\ a.g1.s # "type"
                  THEN CssAttribScan(as, i + 1, [st EXCEPT !.out = ObjSet(st.out, a.g1.s, OrElse(a.g2, a.g3))], files, base)
             ELSE CssAttribScan(as, i + 1, st, files, base)

\* the replacer of bundleCss for match m.  `if (!isCss(attributes)) return;`
\* returns undefined, which String.prototype.replace inserts as the text
\* "undefined"; `if (!isCss) return tagMatch;` tests the function isCss,
\* which is never false.
BundleCssReplacer(s, m, files, base) ==
    IF ~isCss(m.g1.s) THEN "undefined"
    ELSE InlineTag("style", TagMatch(s, m),
                   CssAttribScan(Matches("XML_ATTRIB_REGEX", m.g1.s), 1,
                                 [contents |-> Str(""), out |-> <<>>], files, base))

RECURSIVE BundleCssReplacements(_, _, _, _, _)
BundleCssReplacements(s, ms, i, files, base) ==
    IF i > Len(ms) THEN <<>>
    ELSE <<BundleCssReplacer(s, ms[i], files, base)>> \o BundleCssReplacements(s, ms, i + 1, files, base)

BundleCssOver(s, ms, files, base) == Splice(s, ms, BundleCssReplacements(s, ms, 1, files, base), 1, 1)

bundleCss(s, files, base) == BundleCssOver(s, Matches("LINK_TAG_REGEX", s), files, base)

STYLE_PLACEHOLDER == "<$STYLE$>"

\* the replacer of combineCss for match m, as the state c it leaves: c.out is
\* outputAttributes, c.contents is outputContents, c.first the flag, c.reps
\* the replacer's results so far
CombineCssReplacer(s, m, c, files, base) ==
    IF ~isCss(m.g1.s) THEN [c EXCEPT !.reps = Append(@, "undefined")]
    ELSE CombineTag(c, TagMatch(s, m), STYLE_PLACEHOLDER,
                    CssAttribScan(Matches("XML_ATTRIB_REGEX", m.g1.s), 1,
                                  [contents |-> Str(""), out |-> c.out], files, base))

\* the replace pass of combineCss
RECURSIVE CombineCssPass(_, _, _, _, _, _)
CombineCssPass(s, ms, i, c, files, base) ==
    IF i > Len(ms) THEN c
    ELSE CombineCssPass(s, ms, i + 1, CombineCssReplacer(s, ms[i], c, files, base), files, base)

CombineCssOver(s, ms, files, base) ==
    CombineOutput("style", STYLE_PLACEHOLDER, s, ms, CombineCssPass(s, ms, 1, CombineStart, files, base))

combineCss(s, files, base) == CombineCssOver(s, Matches("LINK_TAG_REGEX", s), files, base)

---------------------------------------------------------------------------
(* Scripts: bundleJsPrep, bundleJs, combineJs (bundle-js.ts).              *)

\* bundleJsPrep: the paths of the fs.readFile calls pushed to promises
RECURSIVE JsPrepFrom(_, _, _, _)
JsPrepFrom(s, ms, i, base) ==
    IF i > Len(ms) THEN <<>>
    ELSE TagReads(Matches("XML_ATTRIB_REGEX", ToText(OrElse(ms[i].g1, ms[i].g2))), 1, "src", base)
         \o JsPrepFrom(s, ms, i + 1, base)

bundleJsPrep(s, base) == JsPrepFrom(s, Matches("SCRIPT_TAG_REGEX", s), 1, base)

\* the attribute loop of bundleJs and combineJs over one tag
RECURSIVE JsAttribScan(_, _, _, _, _)
JsAttribScan(as, i, st, files, base) ==
    IF i > Len(as) THEN st
    ELSE LET a == as[i]
             v == Trim(OrEmpty(a.g2, a.g3))
         IN  IF a.g1.s = "src"
             THEN JsAttribScan(as, i + 1, [st EXCEPT !.contents = ObjGet(files, FilePath(base, v))], files, base)
             ELSE JsAttribScan(as, i + 1, [st EXCEPT !.out = ObjSet(st.out, a.g1.s, OrElse(a.g2, a.g3))], files, base)

\* (selfClosingAttribs || xmlAttribs || "").trim()
ScriptAttributes(m) == Trim(OrEmpty(m.g1, m.g2))

BundleJsReplacer(s, m, files, base) ==
    InlineTag("script", TagMatch(s, m),
              JsAttribScan(Matches("XML_ATTRIB_REGEX", ScriptAttributes(m)), 1,
                           [contents |-> Str(""), out |-> <<>>], files, base))

RECURSIVE BundleJsReplacements(_, _, _, _, _)
BundleJsReplacements(s, ms, i, files, base) ==
    IF i > Len(ms) THEN <<>>
    ELSE <<BundleJsReplacer(s, ms[i], files, base)>> \o BundleJsReplacements(s, ms, i + 1, files, base)

BundleJsOver(s, ms, files, base) == Splice(s, ms, BundleJsReplacements(s, ms, 1, files, base), 1, 1)

bundleJs(s, files, base) == BundleJsOver(s, Matches("SCRIPT_TAG_REGEX", s), files, base)

SCRIPT_PLACEHOLDER == "<$SCRIPT$>"

\* the replacer of combineJs for match m, as the state c it leaves
CombineJsReplacer(s, m, c, files, base) ==
    CombineTag(c, TagMatch(s, m), SCRIPT_PLACEHOLDER,
               JsAttribScan(Matches("XML_ATTRIB_REGEX", ScriptAttributes(m)), 1,
                            [contents |-> Str(""), out |-> c.out], files, base))

\* the replace pass of combineJs
RECURSIVE CombineJsPass(_, _, _, _, _, _)
CombineJsPass(s, ms, i, c, files, base) ==
    IF i > Len(ms) THEN c
    ELSE CombineJsPass(s, ms, i + 1, CombineJsReplacer(s, ms[i], c, files, base), files, base)

CombineJsOver(s, ms, files, base) ==
    CombineOutput("script", SCRIPT_PLACEHOLDER, s, ms, CombineJsPass(s, ms, 1, CombineStart, files, base))

combineJs(s, files, base) == CombineJsOver(s, Matches("SCRIPT_TAG_REGEX", s), files, base)

---------------------------------------------------------------------------
(* createStringGenerator (string-util.ts).                                 *)

\* String.fromCharCode(c.charCodeAt(0) + 1) on the characters the generator
\* holds: the successor of "z" is "{", the first character above "z".
nextChar(c) ==
    LET i == IndexOf(LowerLetters, c)
    IN  IF i = 26 THEN "{" ELSE Char(LowerLetters, i + 1)

ReplaceAt(s, i, c) == SubSeq(s, 1, i - 1) \o c \o SubSeq(s, i + 1, Len(s))

\* a carry that forgets to reset the overflowing digit
RECURSIVE CarryKeepsDigit(_, _)
CarryKeepsDigit(acc, last) ==
    IF last = 0 THEN "a" \o acc
    ELSE LET c == nextChar(Char(acc, last))
         IN  IF c # "{" THEN ReplaceAt(acc, last, c)
             ELSE CarryKeepsDigit(acc, last - 1)

\* the while loop of the generator body, entered with index last (1-based;
\* 0 is the index at which accum[last] is undefined), and the unshift
RECURSIVE Carry(_, _)
Carry(acc, last) ==
    IF last = 0 THEN "a" \o acc
    ELSE LET c == nextChar(Char(acc, last))
         IN  IF c # "{" THEN ReplaceAt(acc, last, c)
             ELSE Carry(ReplaceAt(acc, last, "a"), last - 1)

\* the code between two yields
Advance(acc) == Carry(acc, Len(acc))

\* the value of the k-th next() of a fresh generator
RECURSIVE GenAt(_)
GenAt(k) == IF k <= 1 THEN "a" ELSE Advance(GenAt(k - 1))

GenInit ==
    /\ accum = "a"
    /\ started = FALSE
    /\ count = 0
    /\ value = ""

\* nameGenerator.next()
GenNext ==
    /\ count < MaxNames
    /\ started' = TRUE
    /\ accum' = IF started THEN Advance(accum) ELSE accum
    /\ value' = accum'
    /\ count' = count + 1

---------------------------------------------------------------------------
(* Class renaming: minifyCssClasses, parseCssClassName and                 *)
(* replaceCssClassName (minify-css-classes).                               *)

\* cssClassName.slice(1, -1)
SliceInner(c) == IF Len(c) <= 2 THEN "" ELSE SubSeq(c, 2, Len(c) - 1)

\* cssClassName.startsWith("'") || cssClassName.startsWith("\"")
IsQuoted(c) == StartsWith(c, "'") \/ StartsWith(c, "\"")

\* parseCssClassName after its trim
ParseTrimmed(c) == IF IsQuoted(c) THEN SliceInner(c) ELSE c

parseCssClassName(cssClassName) == ParseTrimmed(Trim(cssClassName))

\* the value of ++x for an x that is no number (an inherited function, NaN)
NaN == -1

\* whitelist && whitelist.indexOf(className) >= 0
Whitelisted(wl, className) == \E i \in 1..Len(wl) : wl[i] = className

\* ++usageCounts[className] for a className in usageCounts
Incremented(counts, className) ==
    IF ~ObjHasOwn(counts, className) THEN NaN
    ELSE IF counts[ObjIndex(counts, className)].val = NaN THEN NaN
    ELSE counts[ObjIndex(counts, className)].val + 1

addCssClass(counts, wl, className) ==
    IF Whitelisted(wl, className) THEN counts
    ELSE IF ObjIn(counts, className) THEN ObjSet(counts, className, Incremented(counts, className))
    ELSE ObjSet(counts, className, 1)

\* (sQuoteValue || dQuoteValue || "").trim().split(WS_REGEX) of a match of
\* HTML_CLASS_REGEX
ClassList(m) == SplitWs(Trim(OrEmpty(m.g2, m.g3)))

\* the class names the matchers of the collection hand to addCssClass, in
\* the order of the calls: the tokens of the class attributes ...
RECURSIVE HtmlClassNames(_, _)
HtmlClassNames(ms, i) ==
    IF i > Len(ms) THEN <<>> ELSE ClassList(ms[i]) \o HtmlClassNames(ms, i + 1)

\* ... the parameters of the marker calls of one text ...
RECURSIVE JsClassNames(_, _)
JsClassNames(ms, i) ==
    IF i > Len(ms) THEN <<>>
    ELSE <<parseCssClassName(ms[i].g1.s)>> \o JsClassNames(ms, i + 1)

\* ... the selectors of one stylesheet ...
RECURSIVE CssClassNames(_, _)
CssClassNames(ms, i) ==
    IF i > Len(ms) THEN <<>> ELSE <<ms[i].g1.s>> \o CssClassNames(ms, i + 1)

\* ... over the files of an Asset Map in for..in order
RECURSIVE CssFilesNames(_, _)
CssFilesNames(files, i) ==
    IF i > Len(files) THEN <<>>
    ELSE CssClassNames(Matches("CSS_CLASS_REGEX", files[i].val), 1) \o CssFilesNames(files, i + 1)

RECURSIVE JsFilesNames(_, _)
JsFilesNames(files, i) ==
    IF i > Len(files) THEN <<>>
    ELSE JsClassNames(Matches("JS_CLASS_REGEX", files[i].val), 1) \o JsFilesNames(files, i + 1)

\* the collection: HTML class attributes, marker calls in the HTML,
\* stylesheets, scripts
CollectedNames(h, css, js) ==
    HtmlClassNames(Matches("HTML_CLASS_REGEX", h), 1)
        \o JsClassNames(Matches("JS_CLASS_REGEX", h), 1)
        \o CssFilesNames(css, 1)
        \o JsFilesNames(js, 1)

\* usageCounts after addCssClass ran on names[i..]
RECURSIVE CountAll(_, _, _, _)
CountAll(names, i, wl, counts) ==
    IF i > Len(names) THEN counts
    ELSE CountAll(names, i + 1, wl, addCssClass(counts, wl, names[i]))

\* (a, b) => b[1] - a[1], a NaN result counting as +0 in the sort
CompareCounts(a, b) == IF a.val = NaN \/ b.val = NaN THEN 0 ELSE b.val - a.val

\* e put into the sorted sequence, behind every entry it does not precede
RECURSIVE InsertEntry(_, _)
InsertEntry(sorted, e) ==
    IF Len(sorted) = 0 THEN <<e>>
    ELSE IF CompareCounts(Head(sorted), e) <= 0 THEN <<Head(sorted)>> \o InsertEntry(Tail(sorted), e)
    ELSE <<e>> \o sorted

\* Array.prototype.sort with a consistent comparator: the stable order
RECURSIVE SortEntries(_, _, _)
SortEntries(entries, i, sorted) ==
    IF i > Len(entries) THEN sorted
    ELSE SortEntries(entries, i + 1, InsertEntry(sorted, entries[i]))

\* whether the comparator is consistent on entries: with a NaN count every
\* comparison with it is 0, which is consistent only if the other counts
\* are all equal
ConsistentCounts(entries) ==
    \/ \A i \in 1..Len(entries) : entries[i].val # NaN
    \/ \A i, j \in 1..Len(entries) :
          (entries[i].val # NaN /\ entries[j].val # NaN) => entries[i].val = entries[j].val

\* [...Object.entries(usageCounts)].sort(...): the order is the stable one,
\* or implementation-defined when the comparator is not consistent
Rankings(entries) ==
    IF ConsistentCounts(entries) THEN {SortEntries(entries, 1, <<>>)}
    ELSE {[i \in 1..Len(entries) |-> entries[f[i]]] : f \in Permutations(1..Len(entries))}

\* replacementNames after the loop over orderedUsageCount[i..]
RECURSIVE AssignNames(_, _, _)
AssignNames(ordered, i, names) ==
    IF i > Len(ordered) THEN names
    ELSE AssignNames(ordered, i + 1, ObjSet(names, ordered[i].key, GenAt(i)))

\* replacementNames[className] as text, for a className in replacementNames
NameText(names, className) ==
    IF ObjHasOwn(names, className) THEN names[ObjIndex(names, className)].val
    ELSE PrototypeText(className)

\* the map callback of the HTML rewrite
RenamedClass(names, className) ==
    IF ObjIn(names, className) THEN NameText(names, className) ELSE className

RECURSIVE RenamedList(_, _, _)
RenamedList(names, list, i) ==
    IF i > Len(list) THEN <<>>
    ELSE <<RenamedClass(names, list[i])>> \o RenamedList(names, list, i + 1)

\* the replacer of the HTML rewrite: the quoted list stands for the whole
\* match
HtmlClassReplacer(m, names) ==
    IF Truthy(m.g2) THEN "'" \o Join(RenamedList(names, ClassList(m), 1), " ") \o "'"
    ELSE "\"" \o Join(RenamedList(names, ClassList(m), 1), " ") \o "\""

\* cssClassName.slice(0, 1) and cssClassName.slice(-1)
FirstChar(c) == IF Len(c) = 0 THEN "" ELSE SubSeq(c, 1, 1)

LastChar(c) == IF Len(c) = 0 THEN "" ELSE SubSeq(c, Len(c), Len(c))

\* replaceCssClassName after its trim
ReplaceTrimmed(c, names) ==
    IF IsQuoted(c)
    THEN IF ObjIn(names, SliceInner(c))
         THEN FirstChar(c) \o NameText(names, SliceInner(c)) \o LastChar(c)
         ELSE c
    ELSE IF ObjIn(names, c) THEN NameText(names, c) ELSE c

replaceCssClassName(cssClassName, names) == ReplaceTrimmed(Trim(cssClassName), names)

\* the replacer of the stylesheet rewrite
CssClassReplacer(s, m, names) ==
    IF ObjIn(names, m.g1.s) THEN "." \o NameText(names, m.g1.s) ELSE TagMatch(s, m)

RECURSIVE HtmlClassReplacements(_, _, _)
HtmlClassReplacements(ms, i, names) ==
    IF i > Len(ms) THEN <<>>
    ELSE <<HtmlClassReplacer(ms[i], names)>> \o HtmlClassReplacements(ms, i + 1, names)

RECURSIVE JsClassReplacements(_, _, _)
JsClassReplacements(ms, i, names) ==
    IF i > Len(ms) THEN <<>>
    ELSE <<replaceCssClassName(ms[i].g1.s, names)>> \o JsClassReplacements(ms, i + 1, names)

RECURSIVE CssClassReplacements(_, _, _, _)
CssClassReplacements(s, ms, i, names) ==
    IF i > Len(ms) THEN <<>>
    ELSE <<CssClassReplacer(s, ms[i], names)>> \o CssClassReplacements(s, ms, i + 1, names)

\* s.replace(HTML_CLASS_REGEX, ...), s.replace(JS_CLASS_REGEX, ...) and
\* s.replace(CSS_CLASS_REGEX, ...) over the matches ms of s
HtmlClassOver(s, ms, names) == Splice(s, ms, HtmlClassReplacements(ms, 1, names), 1, 1)

JsClassOver(s, ms, names) == Splice(s, ms, JsClassReplacements(ms, 1, names), 1, 1)

CssClassOver(s, ms, names) == Splice(s, ms, CssClassReplacements(s, ms, 1, names), 1, 1)

RenameJs(s, names) == JsClassOver(s, Matches("JS_CLASS_REGEX", s), names)

RenameCss(s, names) == CssClassOver(s, Matches("CSS_CLASS_REGEX", s), names)

\* the two replace calls on html
RenameHtml(h, names) == RenameJs(HtmlClassOver(h, Matches("HTML_CLASS_REGEX", h), names), names)

\* the rewrite loops over cssFiles and jsFiles
\* the pass over the stylesheets run again on what it wrote
RenameCssFilesAgain(files, names) ==
    [i \in 1..Len(files) |->
        [key |-> files[i].key,
         val |-> RenameCss(RenameCss(files[i].val, names), names)]]

RenameCssFiles(files, names) ==
    [i \in 1..Len(files) |-> [key |-> files[i].key, val |-> RenameCss(files[i].val, names)]]

RenameJsFiles(files, names) ==
    [i \in 1..Len(files) |-> [key |-> files[i].key, val |-> RenameJs(files[i].val, names)]]

\* usageCounts of minifyCssClasses(h, css, js, wl) once the collection ended
CountsOf(h, css, js, wl) == CountAll(CollectedNames(h, css, js), 1, wl, <<>>)

---------------------------------------------------------------------------
(* The generator on its own.                                               *)

\* no call of stringReplaceAsync under way
NoReplace ==
    /\ partials = <<>>
    /\ prevIndex = 0
    /\ lastIndex = 0
    /\ callback = FALSE
    /\ called = 0
    /\ result = Undefined

\* a plugin stream with nothing written to it
NoStream ==
    templates = <<>> /\ calls = <<>> /\ renders = <<>> /\ ended = "open" /\ settled = 0

\* the tables of minifyCssClasses before it ran
NoTables == usageCounts = <<>> /\ orderedUsageCount = <<>> /\ replacementNames = <<>>

\* PLUGIN_DEFAULTS of options.ts: the three options bundleOutputFile reads and
\* the two combine options
PLUGIN_DEFAULTS ==
    [bundleJs |-> FALSE, bundleCss |-> FALSE, minifyCssClasses |-> FALSE,
     combineCss |-> FALSE, combineJs |-> FALSE]

\* no call of bundleOutputFile under way
NoPipe == options = PLUGIN_DEFAULTS /\ issued = <<>> /\ pending = {} /\ writing = <<>>

IdleDoc ==
    /\ frags = <<>>
    /\ html = ""
    /\ cssFiles = <<>>
    /\ jsFiles = <<>>
    /\ whitelist = <<>>
    /\ fs = <<>>
    /\ pc = "idle"
    /\ log = <<>>
    /\ NoTables
    /\ NoReplace
    /\ NoStream
    /\ NoPipe

InitGen == GenInit /\ IdleDoc

NextGen == GenNext /\ UNCHANGED <<docVars, replaceVars, streamVars>>

SpecGen == InitGen /\ [][NextGen]_vars

---------------------------------------------------------------------------
(* Documents.  A document is the concatenation of fragments; a fragment   *)
(* records, beside its text, what it is (kind) and the locator it holds   *)
(* (loc), so that a property can say what should become of it.            *)

\* options.baseUrl
BaseUrl == "/b"

Frag(k, x, l) == [kind |-> k, text |-> x, loc |-> l]

RECURSIVE DocText(_)
DocText(fr) == IF Len(fr) = 0 THEN "" ELSE Head(fr).text \o DocText(Tail(fr))

DocsOver(lib, max) == UNION {[1..n -> lib] : n \in 0..max}

\* the Asset Map once every read of paths has resolved, the `.then` of each
\* read run in the order of paths
RECURSIVE Loaded(_, _, _)
Loaded(paths, disk, files) ==
    IF Len(paths) = 0 THEN files
    ELSE Loaded(Tail(paths), disk, ObjSet(files, Head(paths), disk[Head(paths)]))

AllOnDisk(paths, disk) == \A i \in 1..Len(paths) : paths[i] \in DOMAIN disk

\* the state of bundleOutputFile after `await Promise.all(promises)` for the
\* document fr on the disk, with the reads resolved in the order issued
AfterLoad(fr, disk, wl) ==
    /\ frags = fr
    /\ html = DocText(fr)
    /\ fs = disk
    /\ AllOnDisk(bundleCssPrep(DocText(fr), BaseUrl), disk)
    /\ AllOnDisk(bundleJsPrep(DocText(fr), BaseUrl), disk)
    /\ cssFiles = Loaded(bundleCssPrep(DocText(fr), BaseUrl), disk, <<>>)
    /\ jsFiles = Loaded(bundleJsPrep(DocText(fr), BaseUrl), disk, <<>>)
    /\ whitelist = wl
    /\ pc = "loaded"
    /\ log = <<>>
    /\ NoTables
    /\ NoReplace
    /\ NoStream
    /\ NoPipe

IdleGen == accum = "a" /\ started = FALSE /\ count = 0 /\ value = ""

---------------------------------------------------------------------------
(* Stylesheet documents: bundleCss and combineCss applied after the load. *)

CssDisk == ("/b/s1.css" :> ".x {}") @@ ("/b/s2.css" :> ".y {}")

CssLib == {
    Frag("sheet", "<link rel=\"stylesheet\" href=\"s1.css\">", "s1.css"),
    Frag("sheet", "<link rel=\"stylesheet\" href=\"/s1.css\"/>", "/s1.css"),
    Frag("sheet", "<link rel=\"stylesheet\" href=\"s2.css\"/>", "s2.css"),
    Frag("link", "<link rel=\"icon\" href=\"s1.css\">", "s1.css"),
    Frag("link", "<link href=\"s2.css\">", "s2.css"),
    Frag("text", "<p>x</p>", "") }

InitCss == IdleGen /\ \E fr \in DocsOver(CssLib, MaxFrags) : AfterLoad(fr, CssDisk, <<>>)

\* html = bundleCss(html, cssFiles, options.baseUrl || file.base)
DoBundleCss ==
    /\ pc = "loaded"
    /\ html' = bundleCss(html, cssFiles, BaseUrl)
    /\ pc' = "bundleCss"
    /\ UNCHANGED <<frags, cssFiles, jsFiles, whitelist, fs, log, minVars, pipeVars>>
    /\ UNCHANGED <<genVars, replaceVars, streamVars>>

\* a call of combineCss on the document and the loaded Asset Map
DoCombineCss ==
    /\ pc = "loaded"
    /\ html' = combineCss(html, cssFiles, BaseUrl)
    /\ pc' = "combineCss"
    /\ UNCHANGED <<frags, cssFiles, jsFiles, whitelist, fs, log, minVars, pipeVars>>
    /\ UNCHANGED <<genVars, replaceVars, streamVars>>

NextCss == DoBundleCss \/ DoCombineCss

SpecCss == InitCss /\ [][NextCss]_vars

---------------------------------------------------------------------------
(* Script documents: bundleJs and combineJs applied after the load.       *)

JsDisk ==
    ("/b/a.js" :> "f();") @@ ("/b/b.js" :> "g();") @@ ("/b/d.js" :> "$$(1);")
        @@ ("/cdn/c.js" :> "h();")

JsLib == {
    Frag("script", "<script src=\"a.js\"></script>", "a.js"),
    Frag("script", "<script src=\"/b.js\"></script>", "/b.js"),
    Frag("script", "<script src=\"d.js\"/>", "d.js"),
    Frag("inline", "<script>x</script>", ""),
    Frag("text", "<p>x</p>", "") }

\* script tags at the edges of the tag grammar: a protocol-relative URL, a
\* relative reference that leaves the base directory, attributes that are
\* bare, single-quoted, or empty in either quoting, an inline script with an
\* attribute, text that spells the placeholder of combineJs, and a tag name
\* and an attribute name in upper case
JsEdgeLib == {
    Frag("absolute", "<script src=\"//cdn/c.js\"></script>", "//cdn/c.js"),
    Frag("outside", "<script src=\"../cdn/c.js\"></script>", "../cdn/c.js"),
    Frag("asset", "<script src=\"a.js\"></script>", "a.js"),
    Frag("attrs", "<script id='m' defer src=\"a.js\" x=\"\"></script>", "a.js"),
    Frag("emptyq", "<script src=\"b.js\" crossorigin=''></script>", "b.js"),
    Frag("inert", "<script async>x</script>", ""),
    Frag("marker", "<$SCRIPT$>", ""),
    Frag("upper", "<SCRIPT src=\"a.js\"></SCRIPT>", "a.js"),
    Frag("upper", "<script SRC=\"a.js\"></script>", "a.js") }

InitJs ==
    /\ IdleGen
    /\ \E fr \in DocsOver(JsLib, MaxFrags) \cup DocsOver(JsEdgeLib, MaxEdgeFrags) :
           AfterLoad(fr, JsDisk, <<>>)

\* html = bundleJs(html, jsFiles, options.baseUrl || file.base)
DoBundleJs ==
    /\ pc = "loaded"
    /\ html' = bundleJs(html, jsFiles, BaseUrl)
    /\ pc' = "bundleJs"
    /\ UNCHANGED <<frags, cssFiles, jsFiles, whitelist, fs, log, minVars, pipeVars>>
    /\ UNCHANGED <<genVars, replaceVars, streamVars>>

\* a call of combineJs on the document and the loaded Asset Map
DoCombineJs ==
    /\ pc = "loaded"
    /\ html' = combineJs(html, jsFiles, BaseUrl)
    /\ pc' = "combineJs"
    /\ UNCHANGED <<frags, cssFiles, jsFiles, whitelist, fs, log, minVars, pipeVars>>
    /\ UNCHANGED <<genVars, replaceVars, streamVars>>

NextJs == DoBundleJs \/ DoCombineJs

SpecJs == InitJs /\ [][NextJs]_vars

---------------------------------------------------------------------------
(* bundleJs and bundleCss called with Asset Maps that lack the assets of  *)
(* some tags (their load was skipped, or it failed upstream).             *)

MissDisk == ("/b/a.js" :> "f();") @@ ("/b/s1.css" :> ".x {}")

\* the tags of kind "missing" name files that were not loaded
MissLib == {
    Frag("missing", "<script src='b.js' defer></script>", "b.js"),
    Frag("missing", "<link rel=\"stylesheet\" type='text/css' href=\"s2.css\"/>", "s2.css"),
    Frag("kept", "<script src=\"a.js\"></script>", "a.js"),
    Frag("kept", "<link rel=\"stylesheet\" href=\"s1.css\">", "s1.css"),
    Frag("text", "<p>x</p>", "") }

\* the fragments whose assets were loaded
RECURSIVE WithoutMissing(_)
WithoutMissing(fr) ==
    IF Len(fr) = 0 THEN <<>>
    ELSE (IF Head(fr).kind = "missing" THEN <<>> ELSE <<Head(fr)>>) \o WithoutMissing(Tail(fr))

\* the state at the call of bundleJs or bundleCss on the document fr with
\* the Asset Maps that the loaded tags alone have filled
InitMiss ==
    /\ IdleGen
    /\ NoTables
    /\ NoReplace
    /\ NoStream
    /\ NoPipe
    /\ frags \in DocsOver(MissLib, MaxMissFrags)
    /\ html = DocText(frags)
    /\ fs = MissDisk
    /\ cssFiles = Loaded(bundleCssPrep(DocText(WithoutMissing(frags)), BaseUrl), MissDisk, <<>>)
    /\ jsFiles = Loaded(bundleJsPrep(DocText(WithoutMissing(frags)), BaseUrl), MissDisk, <<>>)
    /\ whitelist = <<>>
    /\ pc = "loaded"
    /\ log = <<>>

NextMiss == DoBundleJs \/ DoBundleCss

SpecMiss == InitMiss /\ [][NextMiss]_vars

---------------------------------------------------------------------------
(* Class renaming: minifyCssClasses applied after the load, and applied   *)
(* again to what it produced.                                              *)

MinDisk ==
    ("/b/s1.css" :> ".css-class-1 {}.css-class-2 {}.foo {}.foo {}")
        @@ ("/b/a.js" :> "f(cssClassName(\"css-class-1\"));g(cssClassName('bar'));")
        @@ ("/b/s2.css" :> ".a {}.b {}.b {}")
        @@ ("/b/c.js" :> "f(cssClassName('b'));g(cssClassName(\"a\"));")

MinLib == {
    Frag("class", "<div class=\"css-class-1 css-class-2\"/>", ""),
    Frag("class", "<i class='2 1'></i>", ""),
    Frag("class", "<b class=\"a  foo\"/>", ""),
    Frag("class", "<u class=\"bar\"/>", ""),
    Frag("marker", "<a onclick='cssClassName(\"foo\")'/>", ""),
    Frag("sheet", "<link rel=\"stylesheet\" href=\"s1.css\">", "s1.css"),
    Frag("script", "<script src=\"a.js\"></script>", "a.js") }

\* documents with a class named as a member of Object.prototype
ProtoLib == {
    Frag("class", "<u class=\"constructor\"/>", ""),
    Frag("class", "<b class=\"a  foo\"/>", ""),
    Frag("marker", "<a onclick='cssClassName(\"foo\")'/>", "") }

\* marker calls and class names at the edges of what the renamer scans: a
\* marker call with an unquoted argument, an inline marker call for a class
\* name that holds the word class
MinEdgeLib == {
    Frag("unquoted", "<a onclick='cssClassName(foo)'/>", ""),
    Frag("plain", "<b class=\"foo\"/>", ""),
    Frag("inlinecall", "<a onclick='cssClassName(\"css-class-1\")'/>", ""),
    Frag("sheet", "<link rel=\"stylesheet\" href=\"s1.css\">", "s1.css") }

\* number of fragments of a document whose class names are generated names
MaxSwapFrags == 2

\* documents whose class names are the identifiers the generator yields, so
\* that the table maps them onto each other
SwapLib == {
    Frag("swapclass", "<i class=\"b b a\"/>", ""),
    Frag("swapcall", "<a onclick='cssClassName(\"a\")'/>", ""),
    Frag("swapsheet", "<link rel=\"stylesheet\" href=\"s2.css\">", "s2.css"),
    Frag("swapscript", "<script src=\"c.js\"></script>", "c.js") }

\* options.classesWhitelist
Whitelists == {<<>>, <<"a">>, <<"constructor">>}

InitMin ==
    /\ IdleGen
    /\ \E fr \in DocsOver(MinLib, MaxMinFrags) \cup DocsOver(ProtoLib, MaxProtoFrags)
                     \cup DocsOver(MinEdgeLib, MaxMinEdgeFrags)
                     \cup DocsOver(SwapLib, MaxSwapFrags) :
          \E wl \in Whitelists : AfterLoad(fr, MinDisk, wl)

\* html = minifyCssClasses(html, cssFiles, jsFiles, options.classesWhitelist)
\* with the ranking ordered
MinifyWith(counts, ordered, names) ==
    /\ usageCounts' = counts
    /\ orderedUsageCount' = ordered
    /\ replacementNames' = names
    /\ html' = RenameHtml(html, names)
    /\ cssFiles' = RenameCssFiles(cssFiles, names)
    /\ jsFiles' = RenameJsFiles(jsFiles, names)

MinifyRanked(counts) ==
    \E ordered \in Rankings(counts) : MinifyWith(counts, ordered, AssignNames(ordered, 1, <<>>))

DoMinify ==
    /\ pc = "loaded"
    /\ MinifyRanked(CountsOf(html, cssFiles, jsFiles, whitelist))
    /\ pc' = "minified"
    /\ UNCHANGED <<frags, whitelist, fs, log, pipeVars>>
    /\ UNCHANGED <<genVars, replaceVars, streamVars>>

\* the same call on the HTML, CSS and JS the first call produced
DoMinifyAgain ==
    /\ pc = "minified"
    /\ MinifyRanked(CountsOf(html, cssFiles, jsFiles, whitelist))
    /\ pc' = "minifiedAgain"
    /\ UNCHANGED <<frags, whitelist, fs, log, pipeVars>>
    /\ UNCHANGED <<genVars, replaceVars, streamVars>>

NextMin == DoMinify \/ DoMinifyAgain

SpecMin == InitMin /\ [][NextMin]_vars

---------------------------------------------------------------------------
(* bundleOutputFile (index.ts) for one document.  An action is one turn   *)
(* of the event loop: the call itself, or the completion of one           *)
(* fs.readFile or fs.writeFile, each with the promise reactions it sets   *)
(* off, which run before any other completion is handled.  The class      *)
(* renamer the last revision of index.ts imports (minify-class) is taken  *)
(* to be minifyCssClasses, which it calls with the same arguments.        *)

\* number of fragments of a document put through bundleOutputFile
MaxPipeFrags == 2

\* m.js is not on the disk: reading it rejects
PipeDisk ==
    ("/b/a.js" :> "f(cssClassName(\"foo\"));")
        @@ ("/b/b.js" :> "g();")
        @@ ("/b/s1.css" :> ".foo {}.bar {}")

PipeLib == {
    Frag("script", "<script src=\"a.js\"></script>", "a.js"),
    Frag("script", "<script src=\"b.js\"></script>", "b.js"),
    Frag("script", "<script src=\"m.js\"></script>", "m.js"),
    Frag("sheet", "<link rel=\"stylesheet\" href=\"s1.css\">", "s1.css"),
    Frag("class", "<p class=\"bar foo\"/>", "") }

\* the options of a run: every setting of the three options that
\* bundleOutputFile reads, with the two combine options both off or both on
OptionSets ==
    {o \in [bundleJs : BOOLEAN, bundleCss : BOOLEAN, minifyCssClasses : BOOLEAN,
            combineCss : BOOLEAN, combineJs : BOOLEAN] : o.combineCss = o.combineJs}

\* the state at the call: html = template(context, templateOptions)
InitPipe ==
    /\ IdleGen
    /\ NoTables
    /\ NoReplace
    /\ NoStream
    /\ frags \in DocsOver(PipeLib, MaxPipeFrags)
    /\ html = DocText(frags)
    /\ options \in OptionSets
    /\ whitelist = <<>>
    /\ fs = PipeDisk
    /\ cssFiles = <<>>
    /\ jsFiles = <<>>
    /\ issued = <<>>
    /\ pending = {}
    /\ writing = <<>>
    /\ pc = "start"
    /\ log = <<>>

\* the reads of one prep call, each with the Asset Map its content goes to
ReadsInto(map, paths) == [i \in 1..Len(paths) |-> [map |-> map, path |-> paths[i]]]

\* the reads the two prep calls issue, in the order of the calls
PrepReads(h, opts) ==
    (IF opts.bundleJs \/ opts.minifyCssClasses
     THEN ReadsInto("js", bundleJsPrep(h, BaseUrl)) ELSE <<>>)
        \o (IF opts.bundleCss \/ opts.minifyCssClasses
            THEN ReadsInto("css", bundleCssPrep(h, BaseUrl)) ELSE <<>>)

\* await Promise.all(promises) goes on: no read is left unsettled (none was
\* rejected, or the await would have thrown)
AwaitAllReadsLessOne(pend) == Cardinality(pend) <= 1

AwaitAllReads(pend) == pend = {}

\* stream.push(newFile), stream.emit("error", ...)
Pushed(contents) == [event |-> "push", contents |-> contents]

Emitted(path) == [event |-> "error", contents |-> path]

\* if (options.bundleJs) html = bundleJs(...)
BundleJsIf(opts, h, js) == IF opts.bundleJs THEN bundleJs(h, js, BaseUrl) ELSE h

\* if (options.bundleCss) html = bundleCss(...)
BundleCssIf(opts, h, css) == IF opts.bundleCss THEN bundleCss(h, css, BaseUrl) ELSE h

\* the else-branches taken whenever minifyCssClasses is set, inlining or not
WritesOfMinified(opts, css, js) ==
    (IF opts.minifyCssClasses THEN js ELSE <<>>)
        \o (IF opts.minifyCssClasses THEN css ELSE <<>>)

\* the two else-branches: the writes of the minified sources
WritesOf(opts, css, js) ==
    (IF ~opts.bundleJs /\ opts.minifyCssClasses THEN js ELSE <<>>)
        \o (IF ~opts.bundleCss /\ opts.minifyCssClasses THEN css ELSE <<>>)

\* the second await and the push: with no write to wait for, the file is
\* pushed in the same turn
AwaitWrites(h, writes) ==
    /\ writing' = writes
    /\ html' = h
    /\ IF writes = <<>>
       THEN pc' = "pushed" /\ log' = Append(log, Pushed(h))
       ELSE pc' = "writing" /\ log' = log

\* from the bundleJs step to the second await, on the html h and the maps
BundleSteps(h, css, js) ==
    /\ cssFiles' = css
    /\ jsFiles' = js
    /\ AwaitWrites(BundleCssIf(options, BundleJsIf(options, h, js), css), WritesOf(options, css, js))

\* the maps handed on to the inlining as they were loaded
MinifyStepWithLoaded(h, css, js, counts, ordered, names) ==
    /\ usageCounts' = counts
    /\ orderedUsageCount' = ordered
    /\ replacementNames' = names
    /\ BundleSteps(RenameHtml(h, names), css, js)

MinifyStepWith(h, css, js, counts, ordered, names) ==
    /\ usageCounts' = counts
    /\ orderedUsageCount' = ordered
    /\ replacementNames' = names
    /\ BundleSteps(RenameHtml(h, names), RenameCssFiles(css, names), RenameJsFiles(js, names))

MinifyStep(h, css, js, counts) ==
    \E ordered \in Rankings(counts) :
        MinifyStepWith(h, css, js, counts, ordered, AssignNames(ordered, 1, <<>>))

\* the code after the first await, up to the second: the rewrite steps
RewriteSteps(h, css, js) ==
    IF options.minifyCssClasses
    THEN MinifyStep(h, css, js, CountsOf(h, css, js, whitelist))
    ELSE BundleSteps(h, css, js) /\ UNCHANGED minVars

\* what the first await leads to in the same turn, the reads pend being
\* unsettled and the maps being css and js
AfterReads(pend, css, js) ==
    IF AwaitAllReads(pend) THEN RewriteSteps(html, css, js)
    ELSE /\ cssFiles' = css
         /\ jsFiles' = js
         /\ UNCHANGED <<html, pc, log, writing, minVars>>

\* the call of bundleOutputFile up to its first await
IssueReads(reads) ==
    /\ issued' = reads
    /\ pending' = 1..Len(reads)
    /\ IF reads = <<>> THEN RewriteSteps(html, cssFiles, jsFiles)
       ELSE pc' = "await" /\ UNCHANGED <<html, cssFiles, jsFiles, log, writing, minVars>>

Call ==
    /\ pc = "start"
    /\ IssueReads(PrepReads(html, options))
    /\ UNCHANGED <<frags, whitelist, fs, options>>
    /\ UNCHANGED <<genVars, replaceVars, streamVars>>

\* files[filePath] = contents in the map the read belongs to
StoredCss(r, contents) == IF r.map = "css" THEN ObjSet(cssFiles, r.path, contents) ELSE cssFiles

StoredJs(r, contents) == IF r.map = "js" THEN ObjSet(jsFiles, r.path, contents) ELSE jsFiles

\* a read is fulfilled: its .then stores the contents; if the function is at
\* its first await and that was the last read, the function goes on
ReadOk(i) ==
    /\ i \in pending
    /\ issued[i].path \in DOMAIN fs
    /\ pending' = pending \ {i}
    /\ IF pc = "await"
       THEN AfterReads(pending', StoredCss(issued[i], fs[issued[i].path]),
                       StoredJs(issued[i], fs[issued[i].path]))
       ELSE /\ cssFiles' = StoredCss(issued[i], fs[issued[i].path])
            /\ jsFiles' = StoredJs(issued[i], fs[issued[i].path])
            /\ UNCHANGED <<html, pc, log, writing, minVars>>
    /\ UNCHANGED <<frags, whitelist, fs, options, issued>>
    /\ UNCHANGED <<genVars, replaceVars, streamVars>>

\* a rejected read taken for a read of empty content
ReadFailAsEmpty(i) ==
    /\ i \in pending
    /\ issued[i].path \notin DOMAIN fs
    /\ pending' = pending \ {i}
    /\ IF pc = "await"
       THEN AfterReads(pending', StoredCss(issued[i], ""), StoredJs(issued[i], ""))
       ELSE UNCHANGED <<html, cssFiles, jsFiles, pc, log, writing, minVars>>
    /\ UNCHANGED <<frags, whitelist, fs, options, issued>>
    /\ UNCHANGED <<genVars, replaceVars, streamVars>>

\* a read is rejected: Promise.all rejects, the await throws and the catch
\* emits the error; a later rejection finds Promise.all settled
ReadFail(i) ==
    /\ i \in pending
    /\ issued[i].path \notin DOMAIN fs
    /\ pending' = pending \ {i}
    /\ IF pc = "await"
       THEN pc' = "failed" /\ log' = Append(log, Emitted(issued[i].path))
       ELSE UNCHANGED <<pc, log>>
    /\ UNCHANGED <<frags, html, cssFiles, jsFiles, whitelist, fs, options, issued, writing, minVars>>
    /\ UNCHANGED <<genVars, replaceVars, streamVars>>

\* a write is done; after the last one the file is pushed, unless a write
\* was rejected before
WriteOk(k) ==
    /\ pc \in {"writing", "failed"}
    /\ k \in 1..Len(writing)
    /\ fs' = [q \in DOMAIN fs \cup {writing[k].key} |->
                 IF q = writing[k].key THEN writing[k].val ELSE fs[q]]
    /\ writing' = SubSeq(writing, 1, k - 1) \o SubSeq(writing, k + 1, Len(writing))
    /\ IF pc = "writing" /\ writing' = <<>>
       THEN pc' = "pushed" /\ log' = Append(log, Pushed(html))
       ELSE UNCHANGED <<pc, log>>
    /\ UNCHANGED <<frags, html, cssFiles, jsFiles, whitelist, options, issued, pending, minVars>>
    /\ UNCHANGED <<genVars, replaceVars, streamVars>>

\* a write is rejected: the second Promise.all rejects, the await throws and
\* the catch emits the error; the other writes go on
WriteFail(k) ==
    /\ pc \in {"writing", "failed"}
    /\ k \in 1..Len(writing)
    /\ writing' = SubSeq(writing, 1, k - 1) \o SubSeq(writing, k + 1, Len(writing))
    /\ IF pc = "writing"
       THEN pc' = "failed" /\ log' = Append(log, Emitted(writing[k].key))
       ELSE UNCHANGED <<pc, log>>
    /\ UNCHANGED <<frags, html, cssFiles, jsFiles, whitelist, fs, options, issued, pending, minVars>>
    /\ UNCHANGED <<genVars, replaceVars, streamVars>>

NextPipe ==
    \/ Call
    \/ \E i \in 1..Len(issued) : ReadOk(i)
    \/ \E i \in 1..Len(issued) : ReadFail(i)
    \/ \E k \in 1..Len(writing) : WriteOk(k)
    \/ \E k \in 1..Len(writing) : WriteFail(k)

SpecPipe == InitPipe /\ [][NextPipe]_vars

---------------------------------------------------------------------------
(* stringReplaceAsync (string-util.ts) with a global regex.  The exec     *)
(* loop, the callback and the start of the await run in one turn of the   *)
(* event loop, modelled one loop iteration at a time; the promises of     *)
(* the replacer settle in later turns, in any order.  The regex is        *)
(* SCRIPT_TAG_REGEX, as handed over with lastIndex 0.                     *)

\* number of fragments of a document given to stringReplaceAsync
MaxReplaceFrags == 3

ReplaceLib == {
    Frag("script", "<script src=\"a.js\"></script>", "a.js"),
    Frag("script", "<script src=\"b.js\"/>", "b.js"),
    Frag("text", "<p>x</p>", "") }

\* replacer(...match): the string the replacer gives, or its promise gives,
\* for the match m
Replaced(s, m) == "[" \o TagMatch(s, m) \o "]"

\* an entry of partials: a string, or a promise and whether it is fulfilled
Partial(isPromise, x) == [promise |-> isPromise, settled |-> ~isPromise, text |-> x]

\* value.slice(from, to), the indexes counted from 0
Slice(s, from, to) == SubSeq(s, from + 1, to)

\* all.join("")
RECURSIVE JoinPartials(_)
JoinPartials(ps) == IF Len(ps) = 0 THEN "" ELSE Head(ps).text \o JoinPartials(Tail(ps))

InitReplace ==
    /\ IdleGen
    /\ NoTables
    /\ NoPipe
    /\ NoStream
    /\ frags \in DocsOver(ReplaceLib, MaxReplaceFrags)
    /\ html = DocText(frags)
    /\ cssFiles = <<>>
    /\ jsFiles = <<>>
    /\ whitelist = <<>>
    /\ fs = <<>>
    /\ pc = "scan"
    /\ log = <<>>
    /\ partials = <<>>
    /\ prevIndex = 0
    /\ lastIndex = 0
    /\ callback \in BOOLEAN
    /\ called = 0
    /\ result = Undefined

replaceUnchanged == <<frags, html, cssFiles, jsFiles, whitelist, fs, minVars, pipeVars>>

\* a loop iteration that invokes the callback as well
ScanMatchCalling(m, isPromise) ==
    /\ partials' = partials \o <<Partial(FALSE, Slice(html, prevIndex, m.start - 1)),
                                  Partial(isPromise, Replaced(html, m))>>
    /\ prevIndex' = m.end
    /\ lastIndex' = m.end
    /\ called' = IF callback THEN called + 1 ELSE called
    /\ UNCHANGED <<pc, log, callback, result>>

\* one iteration of the loop, for the match m: the segment before the match
\* and what the replacer returns are pushed
ScanMatch(m, isPromise) ==
    /\ partials' = partials \o <<Partial(FALSE, Slice(html, prevIndex, m.start - 1)),
                                  Partial(isPromise, Replaced(html, m))>>
    /\ prevIndex' = m.end
    /\ lastIndex' = m.end
    /\ UNCHANGED <<pc, log, callback, called, result>>

\* exec found nothing more: the rest is pushed, the callback is invoked and
\* the function waits for Promise.all(partials)
ScanEnd ==
    /\ partials' = Append(partials, Partial(FALSE, Slice(html, prevIndex, Len(html))))
    /\ lastIndex' = 0
    /\ called' = IF callback THEN called + 1 ELSE called
    /\ pc' = "await"
    /\ UNCHANGED <<prevIndex, log, callback, result>>

\* while (match = regex.exec(value)) { ... }, one evaluation of the condition
ScanOn(m) ==
    IF m.ok THEN \E isPromise \in BOOLEAN : ScanMatch(m, isPromise) ELSE ScanEnd

Scan ==
    /\ pc = "scan"
    /\ ScanOn(Exec("SCRIPT_TAG_REGEX", html, lastIndex + 1))
    /\ UNCHANGED replaceUnchanged
    /\ UNCHANGED <<genVars, streamVars>>

\* a promise the replacer returned is fulfilled; log keeps the order
Fulfil(i) ==
    /\ pc = "await"
    /\ i \in 1..Len(partials)
    /\ ~partials[i].settled
    /\ partials' = [partials EXCEPT ![i].settled = TRUE]
    /\ log' = Append(log, i)
    /\ UNCHANGED <<pc, prevIndex, lastIndex, callback, called, result>>
    /\ UNCHANGED replaceUnchanged
    /\ UNCHANGED <<genVars, streamVars>>

\* Promise.all(partials) is fulfilled: return all.join("")
Return ==
    /\ pc = "await"
    /\ \A i \in 1..Len(partials) : partials[i].settled
    /\ result' = Str(JoinPartials(partials))
    /\ pc' = "returned"
    /\ UNCHANGED <<partials, prevIndex, lastIndex, callback, called, log>>
    /\ UNCHANGED replaceUnchanged
    /\ UNCHANGED <<genVars, streamVars>>

NextReplace ==
    \/ Scan
    \/ \E i \in 1..Len(partials) : Fulfil(i)
    \/ Return

SpecReplace == InitReplace /\ [][NextReplace]_vars

---------------------------------------------------------------------------
(* The plugin stream (index.ts): the templates stored by the transform,   *)
(* onEndStream, which the overridden stream.end runs, the renderTemplate  *)
(* option and the bundleOutputFile calls it starts, all on one disk.  An  *)
(* action is one turn of the event loop with the promise reactions it     *)
(* sets off.  renderTemplate is the user's: it calls its outputFile       *)
(* argument before it returns (two parameters) or before it calls its     *)
(* done callback (three parameters).  The stream has an error listener,   *)
(* so that stream.emit("error", ...) returns.                             *)

\* number of templates written to the stream
MaxTemplates == 2

\* number of outputFile calls of one renderTemplate invocation
MaxOutputs == 1

\* m.js is not on the disk
StreamDisk == "/b/s1.css" :> ".foo {}.bar {}"

\* what template(context, templateOptions) gives for each stored template
TemplateLib == {
    <<Frag("sheet", "<link rel=\"stylesheet\" href=\"s1.css\">", "s1.css"),
      Frag("class", "<p class=\"bar foo\"/>", "")>>,
    <<Frag("script", "<script src=\"m.js\"></script>", "m.js")>> }

\* the options of a stream: handlebars set or not, renderTemplate not given
\* ("none"), given with two parameters ("sync") or with three ("async")
StreamOptions ==
    {o \in [bundleJs : BOOLEAN, bundleCss : BOOLEAN, minifyCssClasses : BOOLEAN,
            combineCss : {FALSE}, combineJs : {FALSE},
            handlebars : BOOLEAN, renderTemplate : {"none", "sync", "async"}] :
        /\ o.bundleJs = o.bundleCss
        /\ (o.bundleJs => o.minifyCssClasses)
        /\ (~o.handlebars => o.renderTemplate = "none")}

InitStream ==
    /\ IdleGen
    /\ NoTables
    /\ NoReplace
    /\ frags = <<>>
    /\ html = ""
    /\ cssFiles = <<>>
    /\ jsFiles = <<>>
    /\ whitelist = <<>>
    /\ fs = StreamDisk
    /\ pc = "stream"
    /\ log = <<>>
    /\ options \in StreamOptions
    /\ issued = <<>>
    /\ pending = {}
    /\ writing = <<>>
    /\ templates \in UNION {[1..n -> TemplateLib] : n \in 0..MaxTemplates}
    /\ calls = <<>>
    /\ renders = [t \in DOMAIN templates |-> "stored"]
    /\ ended = "open"
    /\ settled = 0

streamUnchanged ==
    <<frags, html, cssFiles, jsFiles, whitelist, pc, minVars, issued, pending, writing,
      templates, options>>

\* bundleOutputFile from the bundleJs step to the second await
Bundled(opts, h, css, js) ==
    [html |-> BundleCssIf(opts, BundleJsIf(opts, h, js), css),
     cssFiles |-> css, jsFiles |-> js, writing |-> WritesOf(opts, css, js)]

\* the same after minifyClassNames with the Rename Table names
Minified(opts, h, css, js, names) ==
    Bundled(opts, RenameHtml(h, names), RenameCssFiles(css, names), RenameJsFiles(js, names))

\* what the code between the two awaits can make of the document and the
\* maps: one outcome for each ranking the sort can give
Outcomes(opts, h, css, js) ==
    IF opts.minifyCssClasses
    THEN {Minified(opts, h, css, js, AssignNames(o, 1, <<>>)) :
              o \in Rankings(CountsOf(h, css, js, <<>>))}
    ELSE {Bundled(opts, h, css, js)}

\* the call after its first await went on with the outcome out
Resumed(c, out) ==
    [c EXCEPT !.html = out.html, !.cssFiles = out.cssFiles, !.jsFiles = out.jsFiles,
              !.writing = out.writing,
              !.pc = IF out.writing = <<>> THEN "pushed" ELSE "writing"]

\* the call for template t up to its first await, the reads being issued
Awaiting(t, h, reads) ==
    [t |-> t, html |-> h, issued |-> reads, pending |-> 1..Len(reads),
     cssFiles |-> <<>>, jsFiles |-> <<>>, writing |-> <<>>, pc |-> "await"]

\* bundleOutputFile called for template t: with no read to wait for it goes
\* on to the push in the same turn, with the outcome out
Begun(t, h, reads, out) ==
    IF reads = <<>> THEN Resumed(Awaiting(t, h, reads), out) ELSE Awaiting(t, h, reads)

BeginOutcomes(opts, h) == Outcomes(opts, h, <<>>, <<>>)

Finished(c) == c.pc \in {"pushed", "failed"}

\* superEnd()
SuperEnd == [event |-> "end", contents |-> ""]

\* results taken to hold the renderTemplate promises only
AllFulfilledRendersOnly(cs, rs) ==
    \A t \in 1..Len(rs) : rs[t] \in {"skipped", "returned", "done"}

\* every promise of results is fulfilled: the calls have returned and each
\* renderTemplate has returned or called done without an error
AllFulfilled(cs, rs) ==
    /\ \A i \in 1..Len(cs) : Finished(cs[i])
    /\ \A t \in 1..Len(rs) : rs[t] \in {"skipped", "returned", "done"}

\* a promise of results is rejected: done was called with an error
AnyRejected(rs) == \E t \in 1..Len(rs) : rs[t] = "error"

\* Promise.all(results).then(() => superEnd()) after a turn that left the
\* calls cs and the renders rs
EndedAfter(e, cs, rs) ==
    IF e # "ending" THEN e
    ELSE IF AnyRejected(rs) THEN "rejected"
    ELSE IF AllFulfilled(cs, rs) THEN "ended"
    ELSE "ending"

\* what the turn adds to the log: the events of the calls, then the end
Logged(events, e1, e2) ==
    log' = log \o events \o (IF e1 # "ended" /\ e2 = "ended" THEN <<SuperEnd>> ELSE <<>>)

\* the turn leaves the calls cs and the renders rs, the stream at e
Turn(cs, rs, e, events) ==
    /\ calls' = cs
    /\ renders' = rs
    /\ ended' = EndedAfter(e, cs, rs)
    /\ Logged(events, ended, ended')

\* the pushes of the calls of cs that have pushed, in the order of the calls
RECURSIVE PushesOf(_)
PushesOf(cs) ==
    IF Len(cs) = 0 THEN <<>>
    ELSE (IF Head(cs).pc = "pushed" THEN <<Pushed(Head(cs).html)>> ELSE <<>>)
             \o PushesOf(Tail(cs))

\* the templates of the outputFile calls made inside onEndStream, n[t] of
\* them for template t, from template t on
RECURSIVE StartsFrom(_, _, _)
StartsFrom(n, t, last) ==
    IF t > last THEN <<>>
    ELSE [k \in 1..n[t] |-> t] \o StartsFrom(n, t + 1, last)

\* how many outputFile calls onEndStream may make for a template
OutputCounts(opts) ==
    IF ~opts.handlebars \/ opts.renderTemplate = "async" THEN {0}
    ELSE IF opts.renderTemplate = "none" THEN {1}
    ELSE 0..MaxOutputs

\* the state of renderTemplate for a template when onEndStream returns
RenderAfterEnd(opts) ==
    IF ~opts.handlebars THEN "skipped"
    ELSE IF opts.renderTemplate = "async" THEN "running"
    ELSE "returned"

\* the calls begun for the templates of starts
BegunAll(starts, outs) ==
    [i \in 1..Len(starts) |->
        Begun(starts[i], DocText(templates[starts[i]]),
              PrepReads(DocText(templates[starts[i]]), options), outs[i])]

OnEndStreamWith(starts) ==
    \E outs \in [1..Len(starts) ->
                    UNION {BeginOutcomes(options, DocText(templates[t])) :
                               t \in 1..Len(templates)}] :
        /\ \A i \in 1..Len(starts) :
               outs[i] \in BeginOutcomes(options, DocText(templates[starts[i]]))
        /\ Turn(BegunAll(starts, outs),
                [t \in 1..Len(templates) |-> RenderAfterEnd(options)],
                "ending", PushesOf(BegunAll(starts, outs)))

\* stream.end(): onEndStream
OnEndStream ==
    /\ ended = "open"
    /\ \E n \in [1..Len(templates) -> OutputCounts(options)] :
           OnEndStreamWith(StartsFrom(n, 1, Len(templates)))
    /\ UNCHANGED <<fs, settled>>
    /\ UNCHANGED streamUnchanged
    /\ UNCHANGED <<genVars, replaceVars>>

CallsOf(t) == {i \in 1..Len(calls) : calls[i].t = t}

\* a renderTemplate with three parameters calls its outputFile argument
SubOutputFile(t) ==
    /\ ended # "open"
    /\ renders[t] = "running"
    /\ Cardinality(CallsOf(t)) < MaxOutputs
    /\ \E out \in BeginOutcomes(options, DocText(templates[t])) :
           Turn(Append(calls, Begun(t, DocText(templates[t]),
                                    PrepReads(DocText(templates[t]), options), out)),
                renders, ended,
                PushesOf(<<Begun(t, DocText(templates[t]),
                                 PrepReads(DocText(templates[t]), options), out)>>))
    /\ UNCHANGED <<fs, settled>>
    /\ UNCHANGED streamUnchanged
    /\ UNCHANGED <<genVars, replaceVars>>

\* a renderTemplate with three parameters calls done, with an error or not
Done(t, error) ==
    /\ ended # "open"
    /\ renders[t] = "running"
    /\ Turn(calls, [renders EXCEPT ![t] = IF error THEN "error" ELSE "done"], ended, <<>>)
    /\ UNCHANGED <<fs, settled>>
    /\ UNCHANGED streamUnchanged
    /\ UNCHANGED <<genVars, replaceVars>>

\* files[filePath] = contents in the map of the call the read belongs to
StoredIn(c, i, contents) ==
    [c EXCEPT !.pending = c.pending \ {i},
              !.cssFiles = IF c.issued[i].map = "css"
                           THEN ObjSet(c.cssFiles, c.issued[i].path, contents)
                           ELSE c.cssFiles,
              !.jsFiles = IF c.issued[i].map = "js"
                          THEN ObjSet(c.jsFiles, c.issued[i].path, contents)
                          ELSE c.jsFiles]

\* the turn in which call k becomes c
CallTurn(k, c, events) ==
    /\ Turn([calls EXCEPT ![k] = c], renders, ended, events)
    /\ settled' = settled + 1

\* the read i of call k, stored as s: the call goes on if that was its last
ReadStored(k, s) ==
    IF s.pc = "await" /\ AwaitAllReads(s.pending)
    THEN \E out \in Outcomes(options, s.html, s.cssFiles, s.jsFiles) :
             CallTurn(k, Resumed(s, out), PushesOf(<<Resumed(s, out)>>))
    ELSE CallTurn(k, s, <<>>)

\* a read of call k is fulfilled with what the disk holds at that time
CallReadOk(k, i) ==
    /\ i \in calls[k].pending
    /\ calls[k].issued[i].path \in DOMAIN fs
    /\ ReadStored(k, StoredIn(calls[k], i, fs[calls[k].issued[i].path]))
    /\ UNCHANGED fs
    /\ UNCHANGED streamUnchanged
    /\ UNCHANGED <<genVars, replaceVars>>

\* a read of call k is rejected: the catch emits the error
CallReadFail(k, i) ==
    /\ i \in calls[k].pending
    /\ calls[k].issued[i].path \notin DOMAIN fs
    /\ IF calls[k].pc = "await"
       THEN CallTurn(k, [calls[k] EXCEPT !.pending = calls[k].pending \ {i}, !.pc = "failed"],
                     <<Emitted(calls[k].issued[i].path)>>)
       ELSE CallTurn(k, [calls[k] EXCEPT !.pending = calls[k].pending \ {i}], <<>>)
    /\ UNCHANGED fs
    /\ UNCHANGED streamUnchanged
    /\ UNCHANGED <<genVars, replaceVars>>

\* the writes of a call without write w
Without(ws, w) == SubSeq(ws, 1, w - 1) \o SubSeq(ws, w + 1, Len(ws))

\* the call after its write w was done
Written(c, w) ==
    [c EXCEPT !.writing = Without(c.writing, w),
              !.pc = IF c.pc = "writing" /\ Without(c.writing, w) = <<>>
                     THEN "pushed" ELSE c.pc]

\* a write of call k is done: the disk holds the renamed source
CallWriteOk(k, w) ==
    /\ calls[k].pc \in {"writing", "failed"}
    /\ w \in 1..Len(calls[k].writing)
    /\ fs' = [q \in DOMAIN fs \cup {calls[k].writing[w].key} |->
                 IF q = calls[k].writing[w].key THEN calls[k].writing[w].val ELSE fs[q]]
    /\ CallTurn(k, Written(calls[k], w), PushesOf(<<Written(calls[k], w)>>))
    /\ UNCHANGED streamUnchanged
    /\ UNCHANGED <<genVars, replaceVars>>

\* a write of call k is rejected: the catch emits the error
CallWriteFail(k, w) ==
    /\ calls[k].pc \in {"writing", "failed"}
    /\ w \in 1..Len(calls[k].writing)
    /\ IF calls[k].pc = "writing"
       THEN CallTurn(k, [calls[k] EXCEPT !.writing = Without(calls[k].writing, w),
                                         !.pc = "failed"],
                     <<Emitted(calls[k].writing[w].key)>>)
       ELSE CallTurn(k, [calls[k] EXCEPT !.writing = Without(calls[k].writing, w)], <<>>)
    /\ UNCHANGED fs
    /\ UNCHANGED streamUnchanged
    /\ UNCHANGED <<genVars, replaceVars>>

NextStream ==
    \/ OnEndStream
    \/ \E t \in 1..Len(templates) : SubOutputFile(t)
    \/ \E t \in 1..Len(templates) : \E error \in BOOLEAN : Done(t, error)
    \/ \E k \in 1..Len(calls) : \E i \in 1..Len(calls[k].issued) : CallReadOk(k, i)
    \/ \E k \in 1..Len(calls) : \E i \in 1..Len(calls[k].issued) : CallReadFail(k, i)
    \/ \E k \in 1..Len(calls) : \E w \in 1..Len(calls[k].writing) : CallWriteOk(k, w)
    \/ \E k \in 1..Len(calls) : \E w \in 1..Len(calls[k].writing) : CallWriteFail(k, w)

SpecStream == InitStream /\ [][NextStream]_vars

\* a read or a write of some call has not completed: fs.readFile and
\* fs.writeFile complete, fulfilled or rejected, so CallReadOk or CallReadFail
\* is enabled for each such read, CallWriteOk and CallWriteFail for each
\* such write
Outstanding ==
    \E k \in 1..Len(calls) : calls[k].pending # {} \/ calls[k].writing # <<>>

\* the step of the stream in which one of them completes
Settle == Outstanding /\ settled' = settled + 1

\* every read and write that was started completes in the end; the calls of
\* renderTemplate's callbacks, which are the user's, are not forced
SpecStreamFair == SpecStream /\ WF_settled(Settle)

---------------------------------------------------------------------------
(* What a document should become, fragment by fragment.                   *)

\* the content the locator loc stands for: the file at loc under the base
\* directory, a leading "/" meaning the base directory too
ContentAt(disk, loc) ==
    disk[BaseUrl \o "/" \o (IF StartsWith(loc, "/") THEN SubSeq(loc, 2, Len(loc)) ELSE loc)]

OnlyKinds(fr, kinds) == \A i \in 1..Len(fr) : fr[i].kind \in kinds

\* every locator of a fragment of kind k names an entry of the Asset Map
AllLoaded(fr, k, files) ==
    \A i \in 1..Len(fr) : fr[i].kind = k => ObjHasOwn(files, FilePath(BaseUrl, fr[i].loc))

HasKind(fr, k) == \E i \in 1..Len(fr) : fr[i].kind = k

\* every fragment of kind k replaced by <tag>content</tag>, the rest kept
RECURSIVE InlinedDoc(_, _, _, _)
InlinedDoc(fr, k, tag, disk) ==
    IF Len(fr) = 0 THEN ""
    ELSE (IF Head(fr).kind = k
          THEN "<" \o tag \o ">" \o ContentAt(disk, Head(fr).loc) \o "</" \o tag \o ">"
          ELSE Head(fr).text) \o InlinedDoc(Tail(fr), k, tag, disk)

\* the contents of the fragments of kind k, concatenated in document order
RECURSIVE ContentsOf(_, _, _)
ContentsOf(fr, k, disk) ==
    IF Len(fr) = 0 THEN ""
    ELSE (IF Head(fr).kind = k THEN ContentAt(disk, Head(fr).loc) ELSE "")
         \o ContentsOf(Tail(fr), k, disk)

\* the first fragment of kind k replaced by block, the others of kind k by
\* the empty string, the rest kept
RECURSIVE CombinedDoc(_, _, _, _)
CombinedDoc(fr, k, block, seen) ==
    IF Len(fr) = 0 THEN ""
    ELSE (IF Head(fr).kind = k THEN (IF seen THEN "" ELSE block) ELSE Head(fr).text)
         \o CombinedDoc(Tail(fr), k, block, seen \/ Head(fr).kind = k)

---------------------------------------------------------------------------
(* C1: bundleCss puts exactly <style>C</style> in the place of every      *)
(* <link rel="stylesheet" href="X"> whose X, relative or with a leading   *)
(* "/", resolves to an Asset Map entry with content C, and leaves every   *)
(* other part of the document unchanged.                                  *)
C1_BundleCssInlinesStylesheets ==
    (pc = "bundleCss" /\ OnlyKinds(frags, {"sheet", "text"}) /\ AllLoaded(frags, "sheet", cssFiles))
        => html = InlinedDoc(frags, "sheet", "style", CssDisk)

---------------------------------------------------------------------------
(* C2: a <link> tag whose rel is absent or is not "stylesheet" appears    *)
(* unchanged in the output of bundleCss and of combineCss.                *)
C2_OtherLinksUnchanged ==
    pc \in {"bundleCss", "combineCss"}
        => \A i \in 1..Len(frags) :
              frags[i].kind = "link" => FindStr(html, 1, frags[i].text) > 0

---------------------------------------------------------------------------
(* C3: combineJs over a document with N >= 1 qualifying script tags puts  *)
(* one <script> whose body is the N asset contents in document order      *)
(* where the first qualifying tag was, and the empty string in the place  *)
(* of each of the others, whatever the asset contents are.                *)
C3_CombineJsConcatenates ==
    (pc = "combineJs" /\ HasKind(frags, "script") /\ AllLoaded(frags, "script", jsFiles))
        => html = CombinedDoc(frags, "script",
                              "<script>" \o ContentsOf(frags, "script", JsDisk) \o "</script>",
                              FALSE)

---------------------------------------------------------------------------
(* C4: the HTML rewrite replaces only the class-name tokens that are in   *)
(* the Rename Table; the attribute name, the quote character and the      *)
(* white space between the tokens stay, so that                           *)
(* <div class="css-class-1 css-class-2"/> becomes <div class="a b"/>.     *)

\* the attribute value v with the tokens that are keys of names replaced,
\* the white space kept
RECURSIVE RenamedValue(_, _)
RenamedValue(v, names) ==
    IF Len(v) = 0 THEN ""
    ELSE IF Char(v, 1) \in WsChars
    THEN SubSeq(v, 1, FirstNotIn(v, 1, WsChars) - 1)
             \o RenamedValue(SubSeq(v, FirstNotIn(v, 1, WsChars), Len(v)), names)
    ELSE (IF ObjHasOwn(names, SubSeq(v, 1, FirstIn(v, 1, WsChars) - 1))
          THEN names[ObjIndex(names, SubSeq(v, 1, FirstIn(v, 1, WsChars) - 1))].val
          ELSE SubSeq(v, 1, FirstIn(v, 1, WsChars) - 1))
             \o RenamedValue(SubSeq(v, FirstIn(v, 1, WsChars), Len(v)), names)

\* the text x, whose class attribute is the match m, with the value renamed
RenamedAttribute(x, m, names) ==
    SubSeq(x, 1, m.end - 1 - Len(OrEmpty(m.g2, m.g3)))
        \o RenamedValue(OrEmpty(m.g2, m.g3), names)
        \o SubSeq(x, m.end, Len(x))

RenamedFragment(x, names) == RenamedAttribute(x, Exec("HTML_CLASS_REGEX", x, 1), names)

C4_ClassAttributeKeepsItsShape ==
    pc = "minified"
        => \A i \in 1..Len(frags) :
              frags[i].kind = "class"
                  => FindStr(html, 1, RenamedFragment(frags[i].text, replacementNames)) > 0

---------------------------------------------------------------------------
(* C6: the ranking orders the counted names by descending usage count and *)
(* names with equal counts by the order of their first encounter in the   *)
(* collection, whatever the class names are.                              *)

\* the index of the first encounter of name k in the collection
FirstSeen(names, k) == MinOf({i \in 1..Len(names) : names[i] = k})

RankedByCountThenEncounter(ordered, names) ==
    \A i, j \in 1..Len(ordered) :
        i < j => \/ ordered[i].val > ordered[j].val
                 \/ /\ ordered[i].val = ordered[j].val
                    /\ FirstSeen(names, ordered[i].key) < FirstSeen(names, ordered[j].key)

NoNaN(counts) == \A i \in 1..Len(counts) : counts[i].val # NaN

C6_RankingByCountThenEncounter ==
    [][(pc = "loaded" /\ pc' = "minified" /\ NoNaN(usageCounts'))
          => RankedByCountThenEncounter(orderedUsageCount', CollectedNames(html, cssFiles, jsFiles))]_vars

---------------------------------------------------------------------------
(* C7: minifying what a first minification produced, with the same        *)
(* whitelist, yields the same HTML, CSS and JS.                           *)
C7_MinifyIdempotent ==
    [][(pc = "minified" /\ pc' = "minifiedAgain")
          => (html' = html /\ cssFiles' = cssFiles /\ jsFiles' = jsFiles)]_vars

---------------------------------------------------------------------------
(* C8: no whitelisted name is a key of the Usage Count Table or of the    *)
(* Rename Table, and every occurrence of a whitelisted name in the HTML   *)
(* class attributes, the CSS selectors and the JS marker calls is left    *)
(* unrenamed; in particular a whitelisted name that stood in a text still *)
(* stands in the rewritten text.                                          *)

NameChars == WordChars \cup {"-"}

\* w stands in x as a whole name: no name character before or after it
Occurs(x, w) ==
    \E p \in 1..Len(x) :
        /\ p + Len(w) - 1 <= Len(x)
        /\ SubSeq(x, p, p + Len(w) - 1) = w
        /\ (p > 1 => Char(x, p - 1) \notin NameChars)
        /\ (p + Len(w) <= Len(x) => Char(x, p + Len(w)) \notin NameChars)

OccursInFiles(files, w) == \E i \in 1..Len(files) : Occurs(files[i].val, w)

C8_WhitelistedNamesUntouched ==
    [][(pc = "loaded" /\ pc' = "minified")
          => \A i \in 1..Len(whitelist) :
                /\ ~ObjHasOwn(usageCounts', whitelist[i])
                /\ ~ObjHasOwn(replacementNames', whitelist[i])
                /\ Occurs(html, whitelist[i]) => Occurs(html', whitelist[i])
                /\ OccursInFiles(cssFiles, whitelist[i]) => OccursInFiles(cssFiles', whitelist[i])
                /\ OccursInFiles(jsFiles, whitelist[i]) => OccursInFiles(jsFiles', whitelist[i])]_vars

---------------------------------------------------------------------------
(* C9: two class names that were distinct before the minification are     *)
(* distinct after it: no generated identifier equals another renamed      *)
(* name's identifier or a name that is left unrenamed.                    *)

\* what the class name n is after the minification with the table names
FinalName(names, n) == IF ObjHasOwn(names, n) THEN names[ObjIndex(names, n)].val ELSE n

NamesOf(seq) == {seq[i] : i \in 1..Len(seq)}

DistinctStayDistinct(before, names) ==
    \A n1, n2 \in before : n1 # n2 => FinalName(names, n1) # FinalName(names, n2)

C9_RenamingCollisionFree ==
    [][(pc = "loaded" /\ pc' = "minified")
          => DistinctStayDistinct(NamesOf(CollectedNames(html, cssFiles, jsFiles)), replacementNames')]_vars

---------------------------------------------------------------------------
(* C10: in bundleOutputFile no rewrite step (class renaming, inlining)    *)
(* starts before every asset read issued for the document has completed:  *)
(* once the html is rewritten, or the function is past its first await,   *)
(* no read is unsettled and every issued path is a key of its Asset Map;  *)
(* before that, and after a rejected read, nothing is rewritten.          *)

\* the Asset Map the read r stores into
MapOf(r) == IF r.map = "css" THEN cssFiles ELSE jsFiles

AllReadsStored == \A i \in 1..Len(issued) : ObjHasOwn(MapOf(issued[i]), issued[i].path)

Rewritten == html # DocText(frags) \/ ~NoTables \/ writing # <<>>

\* the reads of files that are not on the disk
FailedReads == {i \in 1..Len(issued) : issued[i].path \notin DOMAIN fs}

C10_RewriteAfterAllReads ==
    /\ (pc \in {"writing", "pushed"} \/ Rewritten) => (pending = {} /\ AllReadsStored)
    /\ (pc \in {"start", "await"} \/ (pc = "failed" /\ FailedReads # {})) => ~Rewritten

C10_Witness ==
    /\ pc = "pushed"
    /\ Len(issued) >= 2
    /\ issued[1].path # issued[2].path
    /\ html # DocText(frags)
    /\ options.bundleJs /\ options.bundleCss

---------------------------------------------------------------------------
(* C5: the n-th value of createStringGenerator is the n-th string over    *)
(* a..z in length-then-lexicographic order (bijective base 26): a..z, aa, *)
(* ab, ..., zz, aaa; the 27th and 28th are aa and ab, and the carry out   *)
(* of "zz" grows the string by one leading "a".                           *)

\* the n-th string in length-then-lexicographic order, by arithmetic
RECURSIVE NthName(_)
NthName(n) ==
    IF n = 0 THEN ""
    ELSE NthName((n - 1) \div 26) \o Char(LowerLetters, ((n - 1) % 26) + 1)

C5_GeneratorSequence ==
    /\ count >= 1 => value = NthName(count)
    /\ count = 26 => value = "z"
    /\ count = 27 => value = "aa"
    /\ count = 28 => value = "ab"
    /\ count = 702 => value = "zz"
    /\ count = 703 => value = "aaa"

C5_Witness == count = 703 /\ value = "aaa" /\ accum = "aaa"


---------------------------------------------------------------------------
(* C11: if an asset read of the document fails, the document is never     *)
(* pushed and nothing of it is rewritten (the failed asset is never taken *)
(* for empty content); once the failed read has settled, the function has *)
(* stopped and the one thing it emitted is the error.                     *)


NoPush == \A k \in 1..Len(log) : log[k].event # "push"

C11_FailedReadNeverPushed ==
    /\ FailedReads # {} => (NoPush /\ ~Rewritten /\ pc \in {"await", "failed"})
    /\ (\E i \in FailedReads : i \notin pending)
           => (pc = "failed" /\ Len(log) = 1 /\ log[1].event = "error")

C11_Witness ==
    /\ pc = "failed"
    /\ Len(issued) >= 2
    /\ pending = {}
    /\ \E i \in 1..Len(issued) : ObjHasOwn(MapOf(issued[i]), issued[i].path)
    /\ log = <<Emitted("/b/m.js")>>


---------------------------------------------------------------------------
(* C12: a script tag whose src is an absolute URL (scheme:// or //...)    *)
(* causes no read and stands unchanged in the output of bundleJs and of   *)
(* combineJs, whatever the other references of the document have put      *)
(* into the Asset Map.                                                    *)

\* the number of places at which lit stands in s, from index i on
RECURSIVE CountStr(_, _, _)
CountStr(s, i, lit) ==
    IF FindStr(s, i, lit) = 0 THEN 0
    ELSE 1 + CountStr(s, FindStr(s, i, lit) + 1, lit)

AbsoluteTags == {i \in 1..Len(frags) : frags[i].kind = "absolute"}

C12_AbsoluteUrlTagsUntouched ==
    /\ \A i \in AbsoluteTags :
           Len(bundleJsPrep(frags[i].text, BaseUrl)) = 0
    /\ pc \in {"bundleJs", "combineJs"}
           => \A i \in AbsoluteTags :
                  CountStr(html, 1, frags[i].text) >= CountStr(DocText(frags), 1, frags[i].text)


---------------------------------------------------------------------------
(* C13: the tag that bundleJs puts in the place of a qualifying tag has   *)
(* the attributes of that tag without src, in their order, each with its  *)
(* name and its value, bare when it had no value, and none of another     *)
(* tag.                                                                   *)

\* the attributes other than src as they are written in the tag
WrittenAttributes(text) ==
    CASE text = "<script id='m' defer src=\"a.js\" x=\"\"></script>"
             -> <<[key |-> "id", val |-> Str("m")], [key |-> "defer", val |-> Undefined],
                  [key |-> "x", val |-> Str("")]>>
      [] text = "<script src=\"b.js\" crossorigin=''></script>"
             -> <<[key |-> "crossorigin", val |-> Str("")]>>
      [] OTHER -> <<>>

RECURSIVE InlinedWithAttributes(_, _)
InlinedWithAttributes(fr, disk) ==
    IF Len(fr) = 0 THEN ""
    ELSE "<script" \o AttribText(WrittenAttributes(Head(fr).text)) \o ">"
             \o ContentAt(disk, Head(fr).loc) \o "</script>"
             \o InlinedWithAttributes(Tail(fr), disk)

C13_InlinedTagKeepsItsAttributes ==
    (pc = "bundleJs" /\ Len(frags) > 0 /\ OnlyKinds(frags, {"attrs", "emptyq", "asset"}))
        => html = InlinedWithAttributes(frags, JsDisk)


---------------------------------------------------------------------------
(* C14: with the combineJs option set the pushed document holds one       *)
(* merged <script> with the contents of all qualifying scripts where the  *)
(* first of them was, whether or not bundleJs is set as well.             *)

PushedContents == log[Len(log)].contents

C14_CombineOptionMerges ==
    (/\ pc = "pushed"
     /\ options.combineJs /\ ~options.minifyCssClasses
     /\ HasKind(frags, "script") /\ OnlyKinds(frags, {"script", "class"})
     /\ \A i \in 1..Len(frags) :
            frags[i].kind = "script" => FilePath(BaseUrl, frags[i].loc) \in DOMAIN fs)
        => PushedContents
               = CombinedDoc(frags, "script",
                             "<script>" \o ContentsOf(frags, "script", PipeDisk) \o "</script>",
                             FALSE)


---------------------------------------------------------------------------
(* C15: in the load of one document no path is read twice into the same   *)
(* Asset Map, however many tags refer to it.                              *)
C15_EachPathReadOnce ==
    \A i, j \in 1..Len(issued) :
        (issued[i].map = issued[j].map /\ issued[i].path = issued[j].path) => i = j


---------------------------------------------------------------------------
(* C16: the assets of a type are written back exactly when                *)
(* minifyCssClasses is set and the inlining of that type is not; the      *)
(* document is pushed only after all these writes are done, and not at    *)
(* all when one of them fails.                                            *)

WrittenBack(type) ==
    /\ options.minifyCssClasses
    /\ IF type = "js" THEN ~options.bundleJs ELSE ~options.bundleCss

\* what is on the disk at path q once every write-back is done
WrittenDisk(q) ==
    IF WrittenBack("js") /\ ObjHasOwn(jsFiles, q) THEN ObjGet(jsFiles, q).s
    ELSE IF WrittenBack("css") /\ ObjHasOwn(cssFiles, q) THEN ObjGet(cssFiles, q).s
    ELSE PipeDisk[q]

\* the write k is one of the write-backs, with the renamed content
IsWriteBack(w) ==
    \/ WrittenBack("js") /\ ObjHasOwn(jsFiles, w.key) /\ ObjGet(jsFiles, w.key).s = w.val
    \/ WrittenBack("css") /\ ObjHasOwn(cssFiles, w.key) /\ ObjGet(cssFiles, w.key).s = w.val

\* the path is written back already, or its write is still to come
DoneOrWriting(q) ==
    fs[q] = WrittenDisk(q) \/ \E k \in 1..Len(writing) : writing[k].key = q

WriteFailed == pc = "failed" /\ FailedReads = {}

C16_WriteBackBeforePush ==
    /\ DOMAIN fs = DOMAIN PipeDisk
    /\ \A k \in 1..Len(writing) : IsWriteBack(writing[k])
    /\ pc = "writing" => \A q \in DOMAIN fs : DoneOrWriting(q)
    /\ pc = "pushed" => (writing = <<>> /\ \A q \in DOMAIN fs : fs[q] = WrittenDisk(q))
    /\ pc \in {"start", "await"} => fs = PipeDisk
    /\ WriteFailed => (NoPush /\ Len(log) = 1 /\ log[1].event = "error")

\* one write was rejected, the other was done after it, and nothing is pushed
C16_Witness ==
    /\ WriteFailed
    /\ writing = <<>>
    /\ Len(jsFiles) + Len(cssFiles) = 2
    /\ \E q \in DOMAIN fs : fs[q] # PipeDisk[q]


---------------------------------------------------------------------------
(* C17: combineCss gives back a document without a qualifying tag as it   *)
(* is, with no placeholder and no new tag, and in every run it leaves     *)
(* each tag that does not qualify as it stands.                           *)
C17_CombineLeavesOthersAlone ==
    pc = "combineCss"
        => /\ ~HasKind(frags, "sheet") => html = DocText(frags)
           /\ \A i \in 1..Len(frags) :
                  frags[i].kind \in {"link", "text"}
                      => CountStr(html, 1, frags[i].text) >= CountStr(DocText(frags), 1, frags[i].text)


---------------------------------------------------------------------------
(* C18: the tag that combineJs writes has the attributes, other than src, *)
(* of the qualifying tags alone, merged in document order with the later  *)
(* value for a name replacing the earlier; an attribute of a tag that     *)
(* stays in the document is not among them.                               *)

\* the attributes as merged into acc, one after the other
RECURSIVE MergedInto(_, _)
MergedInto(acc, as) ==
    IF Len(as) = 0 THEN acc
    ELSE MergedInto(ObjSet(acc, Head(as).key, Head(as).val), Tail(as))

\* the merge of the written attributes of the fragments of the kinds
RECURSIVE MergedAttributes(_, _, _)
MergedAttributes(fr, kinds, acc) ==
    IF Len(fr) = 0 THEN acc
    ELSE MergedAttributes(Tail(fr), kinds,
                          IF Head(fr).kind \in kinds
                          THEN MergedInto(acc, WrittenAttributes(Head(fr).text)) ELSE acc)

RECURSIVE ContentsOver(_, _, _)
ContentsOver(fr, kinds, disk) ==
    IF Len(fr) = 0 THEN ""
    ELSE (IF Head(fr).kind \in kinds THEN ContentAt(disk, Head(fr).loc) ELSE "")
         \o ContentsOver(Tail(fr), kinds, disk)

\* the first fragment of the kinds replaced by block, the others of the
\* kinds by the empty string, the rest kept
RECURSIVE CombinedOver(_, _, _, _)
CombinedOver(fr, kinds, block, seen) ==
    IF Len(fr) = 0 THEN ""
    ELSE (IF Head(fr).kind \in kinds THEN (IF seen THEN "" ELSE block) ELSE Head(fr).text)
         \o CombinedOver(Tail(fr), kinds, block, seen \/ Head(fr).kind \in kinds)

C18_CombinedAttributesOfQualifyingOnly ==
    (/\ pc = "combineJs"
     /\ OnlyKinds(frags, {"attrs", "asset", "inert"})
     /\ \E i \in 1..Len(frags) : frags[i].kind \in {"attrs", "asset"})
        => html = CombinedOver(frags, {"attrs", "asset"},
                               "<script" \o AttribText(MergedAttributes(frags, {"attrs", "asset"}, <<>>))
                                   \o ">" \o ContentsOver(frags, {"attrs", "asset"}, JsDisk)
                                   \o "</script>",
                               FALSE)


---------------------------------------------------------------------------
(* C19: whatever the text of the document, also when it spells the        *)
(* placeholder, combineJs puts the combined tag where the first           *)
(* qualifying tag was and nowhere else, and leaves no placeholder of its  *)
(* own behind.                                                            *)
C19_PlaceholderNeverCollides ==
    (pc = "combineJs" /\ OnlyKinds(frags, {"asset", "marker"}))
        => /\ html = CombinedOver(frags, {"asset"},
                                  "<script>" \o ContentsOver(frags, {"asset"}, JsDisk) \o "</script>",
                                  FALSE)
           /\ CountStr(html, 1, SCRIPT_PLACEHOLDER) = CountStr(DocText(frags), 1, SCRIPT_PLACEHOLDER)


---------------------------------------------------------------------------
(* C20: a script tag whose tag name or src attribute name is written in   *)
(* upper case is loaded and rewritten exactly like the same tag written   *)
(* in lower case.                                                         *)

\* the document with its upper-case tags written in lower case
RECURSIVE LowerForm(_)
LowerForm(fr) ==
    IF Len(fr) = 0 THEN ""
    ELSE (IF Head(fr).kind = "upper" THEN "<script src=\"a.js\"></script>" ELSE Head(fr).text)
         \o LowerForm(Tail(fr))

UpperCaseDocument == HasKind(frags, "upper") /\ OnlyKinds(frags, {"upper", "asset"})

C20_NamesMatchedCaseInsensitively ==
    UpperCaseDocument
        => /\ jsFiles = Loaded(bundleJsPrep(LowerForm(frags), BaseUrl), JsDisk, <<>>)
           /\ pc = "bundleJs"
                  => html = bundleJs(LowerForm(frags),
                                     Loaded(bundleJsPrep(LowerForm(frags), BaseUrl), JsDisk, <<>>),
                                     BaseUrl)


---------------------------------------------------------------------------
(* C21: a cssClassName(...) call whose argument is not one quoted string  *)
(* literal adds nothing to the Usage Count Table and stands unchanged     *)
(* after the renaming.                                                    *)

\* the count of the class name k (0 when it has none)
UsageOf(k) == IF ObjHasOwn(usageCounts, k) THEN usageCounts[ObjIndex(usageCounts, k)].val ELSE 0

\* the uses of foo in the class attributes of the document
PlainUses == Cardinality({i \in 1..Len(frags) : frags[i].kind = "plain"})

C21_OtherCallShapesIgnored ==
    (pc = "minified" /\ HasKind(frags, "unquoted") /\ OnlyKinds(frags, {"unquoted", "plain"})
        /\ whitelist = <<>>)
        => /\ UsageOf("foo") = PlainUses
           /\ \A i \in 1..Len(frags) :
                  frags[i].kind = "unquoted" => FindStr(html, 1, frags[i].text) > 0


---------------------------------------------------------------------------
(* C22: the one Rename Table is applied to every surface: each selector   *)
(* of each loaded stylesheet and each marker call in the HTML is replaced *)
(* by the identifier of its name, and no occurrence of a counted name is  *)
(* left as it was.                                                        *)

\* the names, each replaced by what the table makes of it
Renamed(seq, names) == [j \in 1..Len(seq) |-> FinalName(names, seq[j])]

SelectorsOf(text) == CssClassNames(Matches("CSS_CLASS_REGEX", text), 1)

\* the inline marker call of the fragment, for the name n, after the renaming
InlineCallFor(n) == "<a onclick='\"" \o FinalName(replacementNames, n) \o "\"'/>"

\* the name in the marker call of an inline-call fragment
InlineCallName(text) ==
    IF text = "<a onclick='cssClassName(\"foo\")'/>" THEN "foo" ELSE "css-class-1"

C22_RenameTableAppliedUniformly ==
    (pc = "minified" /\ whitelist = <<>> /\ OnlyKinds(frags, {"inlinecall", "marker", "sheet", "plain"}))
        => /\ \A i \in 1..Len(cssFiles) :
                  SelectorsOf(cssFiles[i].val)
                      = Renamed(SelectorsOf(MinDisk[cssFiles[i].key]), replacementNames)
           /\ \A i \in 1..Len(frags) :
                  frags[i].kind \in {"inlinecall", "marker"}
                      => /\ ObjHasOwn(replacementNames, InlineCallName(frags[i].text))
                         /\ FindStr(html, 1, InlineCallFor(InlineCallName(frags[i].text))) > 0


---------------------------------------------------------------------------
(* C23: a name with a strictly greater usage count never has a longer     *)
(* identifier than a name with a smaller one, and the name used most      *)
(* has the identifier "a".                                                *)

\* how often the name n was met in the collection
Uses(seq, n) == Cardinality({i \in 1..Len(seq) : seq[i] = n})

\* the name x is used more often than every other name of the table
MostUsed(seq, names, x) ==
    \A j \in 1..Len(names) : names[j].key # x => Uses(seq, x) > Uses(seq, names[j].key)

MonotoneInUsage(seq, names) ==
    /\ \A i, j \in 1..Len(names) :
           Uses(seq, names[i].key) > Uses(seq, names[j].key)
               => Len(names[i].val) <= Len(names[j].val)
    /\ \A i \in 1..Len(names) : MostUsed(seq, names, names[i].key) => names[i].val = "a"

C23_AssignmentMonotoneInUsage ==
    [][(pc = "loaded" /\ pc' = "minified")
          => MonotoneInUsage(CollectedNames(html, cssFiles, jsFiles), replacementNames')]_vars


---------------------------------------------------------------------------
(* C24: a script or stylesheet tag whose resolved path has no entry in    *)
(* the Asset Map comes out of bundleJs and bundleCss as its exact         *)
(* original text, and nothing else changes because of it.                 *)

\* the document after the inlining of the tags of tag name open whose
\* assets are loaded; every other fragment as it was
RECURSIVE InlinedKept(_, _, _)
InlinedKept(fr, open, tag) ==
    IF Len(fr) = 0 THEN ""
    ELSE (IF Head(fr).kind = "kept" /\ StartsWith(Head(fr).text, open)
          THEN "<" \o tag \o ">" \o ContentAt(MissDisk, Head(fr).loc) \o "</" \o tag \o ">"
          ELSE Head(fr).text) \o InlinedKept(Tail(fr), open, tag)

---------------------------------------------------------------------------
(* C29: each rewrite pass renames a token once: where the Rename Table    *)
(* maps names onto each other (b to a and a to b), every occurrence in    *)
(* the class lists, the marker calls, the stylesheets and the scripts     *)
(* ends as the identifier of the name that stood there.                   *)

SwapKinds == {"swapclass", "swapcall", "swapsheet", "swapscript"}

\* what the renaming makes of a fragment of SwapLib: the quoted list the
\* class pass writes and the quoted identifier the marker pass writes
SwapImage(f, names) ==
    IF f.kind = "swapclass"
    THEN "<i \"" \o FinalName(names, "b") \o " " \o FinalName(names, "b") \o " "
             \o FinalName(names, "a") \o "\"/>"
    ELSE IF f.kind = "swapcall"
    THEN "<a onclick='\"" \o FinalName(names, "a") \o "\"'/>"
    ELSE f.text

RECURSIVE SwapImages(_, _)
SwapImages(fr, names) ==
    IF Len(fr) = 0 THEN "" ELSE SwapImage(Head(fr), names) \o SwapImages(Tail(fr), names)

C29_EachTokenRenamedOnce ==
    (pc = "minified" /\ OnlyKinds(frags, SwapKinds))
        => /\ html = SwapImages(frags, replacementNames)
           /\ \A i \in 1..Len(cssFiles) :
                  cssFiles[i].val = "." \o FinalName(replacementNames, "a") \o " {}."
                                       \o FinalName(replacementNames, "b") \o " {}."
                                       \o FinalName(replacementNames, "b") \o " {}"
           /\ \A i \in 1..Len(jsFiles) :
                  jsFiles[i].val = "f('" \o FinalName(replacementNames, "b") \o "');g(\""
                                      \o FinalName(replacementNames, "a") \o "\");"

\* b is used more often than a and takes the identifier a, a takes b
C29_Witness ==
    /\ pc = "minified"
    /\ OnlyKinds(frags, SwapKinds)
    /\ Len(cssFiles) = 1
    /\ HasKind(frags, "swapclass")
    /\ FinalName(replacementNames, "b") = "a"
    /\ FinalName(replacementNames, "a") = "b"
    /\ cssFiles[1].val = ".b {}.a {}.a {}"


---------------------------------------------------------------------------
(* C26: with class minification and inlining both enabled, the renaming   *)
(* runs first: the bodies of the inlined style and script tags carry the  *)
(* identifiers of the Rename Table, the ones the class lists of the HTML  *)
(* carry, and no class name of the loaded sources is left in them.        *)

\* the sheet and the script of PipeDisk after the renaming by the table
RenamedSheet(names) ==
    "." \o FinalName(names, "foo") \o " {}." \o FinalName(names, "bar") \o " {}"

RenamedScript(names) == "f(\"" \o FinalName(names, "foo") \o "\");"

\* the class list of the class fragment as the class pass writes it
RenamedClassList(names) ==
    "\"" \o FinalName(names, "bar") \o " " \o FinalName(names, "foo") \o "\""

InlinedRenamed ==
    /\ (options.bundleCss /\ HasKind(frags, "sheet"))
           => /\ FindStr(html, 1, RenamedSheet(replacementNames) \o "</style>") > 0
              /\ FindStr(html, 1, ".foo") = 0
              /\ ObjHasOwn(replacementNames, "foo")
              /\ ObjHasOwn(replacementNames, "bar")
    /\ (options.bundleJs /\ \E i \in 1..Len(frags) : frags[i].loc = "a.js")
           => /\ FindStr(html, 1, RenamedScript(replacementNames)) > 0
              /\ FindStr(html, 1, "cssClassName") = 0
              /\ ObjHasOwn(replacementNames, "foo")
    /\ HasKind(frags, "class") => FindStr(html, 1, RenamedClassList(replacementNames)) > 0

---------------------------------------------------------------------------
(* C30: stringReplaceAsync with a global regex returns the segments       *)
(* between the matches and the replacer results in the order of the       *)
(* matches, whatever the order in which the promises are fulfilled; a     *)
(* callback is invoked once, when all matches are in partials and before  *)
(* the function has waited for any result.                                *)

\* what the replacer gives for each match of the document
ReplacedAll(s, ms) == [i \in 1..Len(ms) |-> Replaced(s, ms[i])]

\* value.replace(regex, replacer) with the same replacer, not asynchronous
ReplacedInOrder(s, ms) == Splice(s, ms, ReplacedAll(s, ms), 1, 1)

C30_ReplaceAsyncKeepsOrder ==
    [][/\ pc' = "returned"
          => result' = Str(ReplacedInOrder(html, Matches("SCRIPT_TAG_REGEX", html)))
       /\ called' # called
          => /\ called' = 1
             /\ pc = "scan"
             /\ pc' = "await"
             /\ log' = <<>>
             /\ Len(partials') = 2 * Len(Matches("SCRIPT_TAG_REGEX", html)) + 1
       /\ (callback /\ pc' \in {"await", "returned"}) => called' = 1]_vars

\* two promises, the one of the second match fulfilled first
C30_Witness ==
    /\ pc = "returned"
    /\ callback
    /\ called = 1
    /\ log = <<4, 2>>
    /\ result = Str("[<script src=\"a.js\"></script>]<p>x</p>[<script src=\"b.js\"/>]")


---------------------------------------------------------------------------
(* C25: documents are isolated: a call of bundleOutputFile that runs      *)
(* next to other calls pushes the output, and ends with the Asset Maps,   *)
(* that the same call gives when it runs alone on the disk as it was.     *)

\* what a call for the document h can end with when it is the only one
\* the paths of the reads that go to the Asset Map map
PathsInto(reads, map) ==
    [i \in 1..Len(SelectSeq(reads, LAMBDA r : r.map = map)) |->
        SelectSeq(reads, LAMBDA r : r.map = map)[i].path]

AloneOutcomes(opts, h) ==
    IF \E i \in 1..Len(PrepReads(h, opts)) : PrepReads(h, opts)[i].path \notin DOMAIN StreamDisk
    THEN {}
    ELSE Outcomes(opts, h,
                  Loaded(PathsInto(PrepReads(h, opts), "css"), StreamDisk, <<>>),
                  Loaded(PathsInto(PrepReads(h, opts), "js"), StreamDisk, <<>>))

\* the call ended as one of the outcomes outs
EndedAs(c, outs) ==
    \E out \in outs :
        c.html = out.html /\ c.cssFiles = out.cssFiles /\ c.jsFiles = out.jsFiles

C25_DocumentsIsolated ==
    \A k \in 1..Len(calls) :
        calls[k].pc = "pushed"
            => EndedAs(calls[k], AloneOutcomes(options, DocText(templates[calls[k].t])))


---------------------------------------------------------------------------
(* C27: the overridden end invokes the underlying end only when every     *)
(* bundleOutputFile call started for the stored templates has settled:    *)
(* no file is pushed after the underlying end, which is invoked once.     *)

EventsOf(lg, e) == {i \in 1..Len(lg) : lg[i].event = e}

C27_EndAfterEveryCallSettled ==
    /\ \A i \in EventsOf(log, "end") : \A j \in EventsOf(log, "push") : j < i
    /\ Cardinality(EventsOf(log, "end")) = (IF ended = "ended" THEN 1 ELSE 0)
    /\ ended = "ended"
           => /\ \A k \in 1..Len(calls) : Finished(calls[k])
              /\ \A t \in 1..Len(templates) : renders[t] # "running"

\* two calls that wrote their sources back have pushed, then the end
C27_Witness ==
    /\ ended = "ended"
    /\ options.minifyCssClasses
    /\ ~options.bundleCss
    /\ options.renderTemplate = "async"
    /\ Len(calls) = 2
    /\ Len(log) = 3
    /\ log[1].event = "push"
    /\ log[2].event = "push"
    /\ log[3] = SuperEnd
    /\ fs # StreamDisk


---------------------------------------------------------------------------
(* C28: once end() was called and every renderTemplate invocation has     *)
(* returned and called its done callback, with an error or without, the   *)
(* underlying end is eventually invoked, also when a document fails to    *)
(* load or to be written.                                                  *)

RendersOver == ended # "open" /\ \A t \in 1..Len(templates) : renders[t] # "running"

C28_EndEventuallyInvoked == RendersOver ~> (ended = "ended")

===========================================================================
